---- MODULE Spec2Model ----
(***************************************************************************)
(* A model of package oasis (go-oasis/oasis): the authorization-request    *)
(* decoder, the stage-keyed handler mux, the redirect responder, the       *)
(* cached response and the authorization endpoint.                         *)
(*                                                                         *)
(* A Go string is a sequence of symbols.  A symbol is one character       *)
(* ("a", " ", "%"), or one whole literal of the source text               *)
(* ("response_type is required but not set") where the program only ever  *)
(* copies that literal.                                                    *)
(***************************************************************************)
EXTENDS Integers, Sequences, FiniteSets, TLC

VARIABLES
    decoderArgs,            \* the arguments NewAuthorizeDecoder was called with
    allowedResponseTypes,   \* DefaultAuthorizeDecoder.allowedResponseTypes (its key set)
    req,                    \* the *http.Request of the last DecodeAuthorize call
    dctx,                   \* the context DecodeAuthorize returned
    ar,                     \* the *AuthorizeRequest DecodeAuthorize returned
    err,                    \* the error DecodeAuthorize returned
    handlers,               \* AuthorizeHandlerMux.handlers
    registrations,          \* the Add and AddFunc calls made on the mux, in order
    muxCall,                \* the arguments of the last mux.HandleAuthorizeRequest call
    invoked,                \* the handler invocations that call made, in order
    rd,                     \* the Responder that call returned
    panicked,               \* the run-time panic that call ended in ("" when it returned)
    rr,                     \* the RedirectResponse a handler built
    ranged,                 \* the orders the last rr.ResponseTo call ranged over rr's maps in
    rwBefore,               \* the http.ResponseWriter as that call received it
    rw,                     \* the http.ResponseWriter as that call left it
    rerr,                   \* the error that call returned
    rc,                     \* the ResponseCache a handler built, its Body as far as it has been read
    rcMade,                 \* that ResponseCache as it was built
    copied,                 \* the order and the outcomes the last rc.ResponseTo call met
    cwBefore,               \* the http.ResponseWriter as that call received it
    cw,                     \* the http.ResponseWriter as that call left it
    cerr,                   \* the error that call returned
    inflight,               \* the calls of rc.ResponseTo that run, each as far as it has got
    served,                 \* the request and the writer the last call of the endpoint got
    calls                   \* the calls of decoder, handler and encoder that call made, in order

decVars == <<decoderArgs, allowedResponseTypes, req, dctx, ar, err>>

muxVars == <<handlers, registrations, muxCall, invoked, rd, panicked>>

redirectVars == <<rr, ranged, rwBefore, rw, rerr>>

cacheVars == <<rc, rcMade, copied, cwBefore, cw, cerr, inflight>>

endpointVars == <<served, calls>>

vars == <<decVars, muxVars, redirectVars, cacheVars, endpointVars>>

\* The nil pointer, the nil error, the nil interface value.  Every value that
\* may be nil is a record.
Nil == [nil |-> TRUE]

\* The nil context.Context; a context is a name.
NilContext == "nil"

\* No call has been made yet.
NoCall == [nocall |-> TRUE]

\* errors.New / fmt.Errorf: an error value with its message.
Error(msg) == [msg |-> msg]

\* No RedirectResponse has been built and no writer written to.
IdleResponder ==
    /\ rr = Nil
    /\ ranged = NoCall
    /\ rwBefore = Nil
    /\ rw = Nil
    /\ rerr = Nil

\* The goroutines that call rc.ResponseTo, and none of them in a call.
Callers == {"g1", "g2"}
NoCalls == [c \in Callers |-> NoCall]

\* No ResponseCache has been built and no writer written to.
IdleCache ==
    /\ rc = Nil
    /\ rcMade = Nil
    /\ copied = NoCall
    /\ cwBefore = Nil
    /\ cw = Nil
    /\ cerr = Nil
    /\ inflight = NoCalls

\* No call of the endpoint has been made.
IdleEndpoint ==
    /\ served = NoCall
    /\ calls = <<>>

(***************************************************************************)
(* Strings                                                                 *)
(***************************************************************************)

\* strings.TrimLeft(s, cutset), cutset given as the set of its characters.
RECURSIVE TrimLeft(_, _)
TrimLeft(s, cutset) ==
    IF s # <<>> /\ Head(s) \in cutset THEN TrimLeft(Tail(s), cutset) ELSE s

\* strings.TrimRight(s, cutset).
RECURSIVE TrimRight(_, _)
TrimRight(s, cutset) ==
    IF s # <<>> /\ s[Len(s)] \in cutset
    THEN TrimRight(SubSeq(s, 1, Len(s) - 1), cutset)
    ELSE s

\* strings.Trim(s, cutset): leading and trailing characters of cutset removed.
Trim(s, cutset) == TrimRight(TrimLeft(s, cutset), cutset)

\* The cutset literal "\r\n\t " of DecodeAuthorize.
Cutset == {"\r", "\n", "\t", " "}

(***************************************************************************)
(* The decoder                                                             *)
(***************************************************************************)

code == <<"c", "o", "d", "e">>
token == <<"t", "o", "k", "e", "n">>

\* url.Values.Get(key): the first value of the key, "" when there is none.
Get(values, key) == IF values[key] = <<>> THEN <<>> ELSE values[key][1]

\* The five query keys DecodeAuthorize reads.
QueryKeys == {"response_type", "client_id", "redirect_uri", "scope", "state"}

\* NewAuthorizeDecoder(allowedResponseTypes...): the map's key set.
NewAuthorizeDecoder(allowed) == {allowed[i] : i \in DOMAIN allowed}

\* A plausible slip: a request that names its client starts at the stage of
\* the authorization.
NewAuthorizeRequestStaged(q) ==
    [HTTPRequest  |-> Nil,
     ResponseType |-> Trim(Get(q, "response_type"), Cutset),
     ClientID     |-> Trim(Get(q, "client_id"), Cutset),
     RedirectURI  |-> Trim(Get(q, "redirect_uri"), Cutset),
     Scope        |-> Trim(Get(q, "scope"), Cutset),
     State        |-> Trim(Get(q, "state"), Cutset),
     Stage        |-> IF Trim(Get(q, "client_id"), Cutset) = <<>> THEN 0 ELSE 3,
     UserID       |-> <<>>]

\* &AuthorizeRequest{...} of DecodeAuthorize: the fields not named keep
\* their zero value.
NewAuthorizeRequest(q) ==
    [HTTPRequest  |-> Nil,
     ResponseType |-> Trim(Get(q, "response_type"), Cutset),
     ClientID     |-> Trim(Get(q, "client_id"), Cutset),
     RedirectURI  |-> Trim(Get(q, "redirect_uri"), Cutset),
     Scope        |-> Trim(Get(q, "scope"), Cutset),
     State        |-> Trim(Get(q, "state"), Cutset),
     Stage        |-> 0,
     UserID       |-> <<>>]

ErrResponseTypeNotSet == Error(<<"response_type is required but not set">>)

ErrResponseTypeNotAllowed(responseType) ==
    Error(<<"response_type \"">> \o responseType \o <<"\" is not allowed">>)

\* A plausible slip: the allow-set is consulted before the emptiness check.
DecodeErrorMembershipFirst(allowed, a) ==
    IF a.ResponseType \in allowed THEN Nil
    ELSE IF a.ResponseType = <<>> THEN ErrResponseTypeNotSet
    ELSE ErrResponseTypeNotAllowed(a.ResponseType)

\* The two checks of DecodeAuthorize, in the order of the source: the error
\* it returns for the request it built.
DecodeError(allowed, a) ==
    IF a.ResponseType = <<>> THEN ErrResponseTypeNotSet
    ELSE IF a.ResponseType \notin allowed THEN ErrResponseTypeNotAllowed(a.ResponseType)
    ELSE Nil

\* A plausible slip: no request is returned beside an error.
DecodeAuthorizeResultNilOnError(allowed, r) ==
    LET a == NewAuthorizeRequest(r.query)
        e == DecodeError(allowed, a)
    IN  [ctx |-> r.ctx, ar |-> IF e = Nil THEN a ELSE Nil, err |-> e]

\* What DecodeAuthorize(r) returns: (ctx, ar, err).
DecodeAuthorizeResult(allowed, r) ==
    LET a == NewAuthorizeRequest(r.query)
    IN  [ctx |-> r.ctx, ar |-> a, err |-> DecodeError(allowed, a)]

\* One call of DecodeAuthorize on the decoder.
DecodeAuthorize(r) ==
    LET res == DecodeAuthorizeResult(allowedResponseTypes, r)
    IN  /\ req' = r
        /\ dctx' = res.ctx
        /\ ar' = res.ar
        /\ err' = res.err
        /\ UNCHANGED <<decoderArgs, allowedResponseTypes>>
        /\ UNCHANGED muxVars
        /\ UNCHANGED redirectVars
        /\ UNCHANGED cacheVars
        /\ UNCHANGED endpointVars

(***************************************************************************)
(* The handler mux                                                         *)
(***************************************************************************)

StageInitialize == 0
StageToAuthenticate == 1
StageIntermediate == 2
StageToAuthorize == 3
StageCustom == 4

\* A stage of the integrator's own ("numbers above 100").
StageOfIntegrator == 101

StatusInternalServerError == 500

\* http.StatusText(code): the empty string for a code it does not know.
StatusText(c) ==
    CASE c = 200 -> <<"OK">>
      [] c = 307 -> <<"Temporary Redirect">>
      [] c = 404 -> <<"Not Found">>
      [] c = 500 -> <<"Internal Server Error">>
      [] OTHER -> <<>>

\* make(http.Header), make(map[...]...): the empty map.
EmptyMap == <<>>

\* NewAuthorizeHandlerMux().handlers
NewAuthorizeHandlerMux == EmptyMap

\* m[k] = v on a Go map.
MapSet(m, k, v) == [x \in (DOMAIN m) \cup {k} |-> IF x = k THEN v ELSE m[x]]

\* A handler value held by the registry: the nil interface (Nil), a handler
\* object, or an AuthorizeHandlerFunc (whose function may be nil).
HandlerObject(name) == [kind |-> "object", name |-> name]
HandlerFunc(f) == [kind |-> "func", f |-> f]

\* A plausible slip: a stage that has a handler keeps it.
AddedKeepsFirst(hs, stage, handler) ==
    IF stage \in DOMAIN hs THEN hs ELSE MapSet(hs, stage, handler)

\* mux.handlers after mux.Add(stage, handler) and after
\* mux.AddFunc(stage, handler): both assign mux.handlers[stage].
Added(hs, stage, handler) == MapSet(hs, stage, handler)

\* The number of Add and AddFunc calls made on one mux.
MaxRegistrations == 3

\* mux.Add(stage, handler)
Add(stage, handler) ==
    /\ Len(registrations) < MaxRegistrations
    /\ handlers' = Added(handlers, stage, handler)
    /\ registrations' = Append(registrations, [stage |-> stage, handler |-> handler])
    /\ UNCHANGED <<muxCall, invoked, rd, panicked>>
    /\ UNCHANGED decVars
    /\ UNCHANGED redirectVars
    /\ UNCHANGED cacheVars
    /\ UNCHANGED endpointVars

\* mux.AddFunc(stage, handler): the function is stored as an
\* AuthorizeHandlerFunc.
AddFunc(stage, f) ==
    /\ Len(registrations) < MaxRegistrations
    /\ handlers' = Added(handlers, stage, HandlerFunc(f))
    /\ registrations' =
           Append(registrations, [stage |-> stage, handler |-> HandlerFunc(f)])
    /\ UNCHANGED <<muxCall, invoked, rd, panicked>>
    /\ UNCHANGED decVars
    /\ UNCHANGED redirectVars
    /\ UNCHANGED cacheVars
    /\ UNCHANGED endpointVars

\* What the handlers of the integrator return (they are not part of the
\* package): h1 returns nothing, as the handlers of TestAuthorizeHandlerMux
\* do; h2 a page; f1 a redirect, or on a decode error a response with the
\* content of the mux's fallback.
HandlerReturns(name, ctx, a, decodeErr) ==
    CASE name = "h1" -> Nil
      [] name = "h2" ->
            [type |-> "ResponseCache", addr |-> "h2", Code |-> 200,
             HeaderCache |-> EmptyMap, Body |-> <<"login form">>]
      [] name = "f1" /\ decodeErr = Nil ->
            [type |-> "RedirectResponse", addr |-> "f1", Code |-> 307,
             HeaderCache |-> EmptyMap, Body |-> a.RedirectURI]
      [] OTHER ->
            [type |-> "ResponseCache", addr |-> "f1", Code |-> 500,
             HeaderCache |-> EmptyMap, Body |-> StatusText(500)]

\* The panic of calling a method of a nil interface value or a nil function.
NilDereference == "invalid memory address or nil pointer dereference"

\* handler.HandleAuthorizeRequest(ctx, ar, decodeErr) on a value of the
\* registry: the invocations made, the Responder returned, the panic.
\* AuthorizeHandlerFunc.HandleAuthorizeRequest calls f(ctx, ar, decodeErr).
CallHandler(h, ctx, a, decodeErr) ==
    IF h = Nil \/ (h.kind = "func" /\ h.f = "nil")
    THEN [invoked |-> <<>>, rd |-> Nil, panicked |-> NilDereference]
    ELSE [invoked |-> <<[handler |-> h, ctx |-> ctx, ar |-> a, decodeErr |-> decodeErr]>>,
          rd |-> HandlerReturns(IF h.kind = "func" THEN h.f ELSE h.name,
                                ctx, a, decodeErr),
          panicked |-> ""]

\* A plausible slip: the fallback reports the stage as not found.
FallbackNotFound ==
    [type |-> "ResponseCache", addr |-> "mux",
     Code |-> 404,
     HeaderCache |-> EmptyMap,
     Body |-> StatusText(404)]

\* The ResponseCache the mux builds when the stage has no handler.
FallbackResponse ==
    [type |-> "ResponseCache", addr |-> "mux",
     Code |-> StatusInternalServerError,
     HeaderCache |-> EmptyMap,
     Body |-> StatusText(StatusInternalServerError)]

\* A plausible slip: a handler that returns nothing gets the fallback.
DispatchFallbackOnNil(hs, ctx, a, decodeErr) ==
    IF a.Stage \in DOMAIN hs /\ CallHandler(hs[a.Stage], ctx, a, decodeErr).rd # Nil
    THEN CallHandler(hs[a.Stage], ctx, a, decodeErr)
    ELSE [invoked |-> IF a.Stage \in DOMAIN hs
                      THEN CallHandler(hs[a.Stage], ctx, a, decodeErr).invoked
                      ELSE <<>>,
          rd |-> FallbackResponse, panicked |-> ""]

\* What mux.HandleAuthorizeRequest(ctx, ar, decodeErr) does on registry hs.
Dispatch(hs, ctx, a, decodeErr) ==
    IF a.Stage \in DOMAIN hs
    THEN CallHandler(hs[a.Stage], ctx, a, decodeErr)
    ELSE [invoked |-> <<>>, rd |-> FallbackResponse, panicked |-> ""]

\* mux.HandleAuthorizeRequest(ctx, ar, decodeErr)
HandleAuthorizeRequest(ctx, a, decodeErr) ==
    LET res == Dispatch(handlers, ctx, a, decodeErr)
    IN  /\ muxCall' = [ctx |-> ctx, ar |-> a, decodeErr |-> decodeErr,
                       registered |-> Len(registrations)]
        /\ invoked' = res.invoked
        /\ rd' = res.rd
        /\ panicked' = res.panicked
        /\ UNCHANGED <<handlers, registrations>>
        /\ UNCHANGED decVars
        /\ UNCHANGED redirectVars
        /\ UNCHANGED cacheVars
        /\ UNCHANGED endpointVars

(***************************************************************************)
(* The inputs of the mux                                                   *)
(***************************************************************************)

\* The stages handlers are registered for, and the stages of requests.
RegisteredStages == {StageInitialize, StageToAuthorize}
RequestStages == {StageInitialize, StageToAuthenticate, StageToAuthorize}

\* The handlers given to Add, and the functions given to AddFunc.
AddHandlers == {Nil, HandlerObject("h1"), HandlerObject("h2")}
AddFuncs == {"nil", "f1"}

\* The requests given to the mux, as the decoder or a handler makes them.
MuxRequests ==
    { [HTTPRequest |-> Nil, ResponseType |-> code,
       ClientID |-> <<"hello-client-1">>, RedirectURI |-> <<"/cb">>,
       Scope |-> <<>>, State |-> <<>>, Stage |-> st, UserID |-> <<>>] :
        st \in RequestStages }

\* The context and the decode error given to the mux.
MuxOutcomes ==
    { [ctx |-> NilContext, decodeErr |-> Nil],
      [ctx |-> "ctx1", decodeErr |-> ErrResponseTypeNotSet] }

\* The mux as NewAuthorizeHandlerMux returns it, and no call made on it.
InitMux ==
    /\ handlers = NewAuthorizeHandlerMux
    /\ registrations = <<>>
    /\ muxCall = NoCall
    /\ invoked = <<>>
    /\ rd = Nil
    /\ panicked = ""

NextMux ==
    \/ \E st \in RegisteredStages, h \in AddHandlers : Add(st, h)
    \/ \E st \in RegisteredStages, f \in AddFuncs : AddFunc(st, f)
    \/ \E a \in MuxRequests, o \in MuxOutcomes :
          HandleAuthorizeRequest(o.ctx, a, o.decodeErr)

\* A decoder that allows nothing and has not been called.
IdleDecoder ==
    /\ decoderArgs = <<>>
    /\ allowedResponseTypes = NewAuthorizeDecoder(<<>>)
    /\ req = NoCall
    /\ dctx = NilContext
    /\ ar = Nil
    /\ err = Nil

InitMuxAlone == InitMux /\ IdleDecoder /\ IdleResponder /\ IdleCache /\ IdleEndpoint

SpecMux == InitMuxAlone /\ [][NextMux]_vars

(***************************************************************************)
(* Properties of the mux                                                   *)
(***************************************************************************)

\* Among the first n registrations, one is for the stage.
HasRegistration(stage, n) == \E i \in 1..n : registrations[i].stage = stage

\* The handler value the most recent of the first n registrations gave for
\* the stage.
LastRegistered(stage, n) ==
    LET last == CHOOSE i \in 1..n :
                    /\ registrations[i].stage = stage
                    /\ \A j \in (i + 1)..n : registrations[j].stage # stage
    IN  registrations[last].handler

\* The value is a handler: neither the nil interface nor a nil function.
IsHandler(h) == h # Nil /\ ~(h.kind = "func" /\ h.f = "nil")

\* All stages a registration or a request names.
AllStages == {StageInitialize, StageToAuthenticate, StageIntermediate,
              StageToAuthorize, StageCustom, StageOfIntegrator}

\* C3: after any sequence of Add and AddFunc calls, a request of stage s is
\* handled by the handler the most recent Add/AddFunc for s passed, and by no
\* handler registered earlier for s or for another stage; registering a
\* stage again is accepted and leaves every other stage with the handler it
\* had (the registry holds, per stage, the last value registered for it).
C3_LastRegistrationWins ==
    /\ \A s \in AllStages :
          /\ s \in DOMAIN handlers <=> HasRegistration(s, Len(registrations))
          /\ s \in DOMAIN handlers =>
                 handlers[s] = LastRegistered(s, Len(registrations))
    /\ muxCall # NoCall =>
          /\ \A i \in DOMAIN invoked :
                 /\ HasRegistration(muxCall.ar.Stage, muxCall.registered)
                 /\ invoked[i].handler =
                        LastRegistered(muxCall.ar.Stage, muxCall.registered)
          /\ (/\ HasRegistration(muxCall.ar.Stage, muxCall.registered)
              /\ IsHandler(LastRegistered(muxCall.ar.Stage, muxCall.registered)))
                 => Len(invoked) = 1

\* C3's case: one stage registered twice with different handlers, another
\* stage registered in between, and a request of the first stage handled by
\* the second handler.
C3_Witness ==
    /\ muxCall # NoCall
    /\ muxCall.registered = 3
    /\ registrations[1].stage = muxCall.ar.Stage
    /\ registrations[2].stage # muxCall.ar.Stage
    /\ registrations[3].stage = muxCall.ar.Stage
    /\ IsHandler(registrations[1].handler)
    /\ IsHandler(registrations[3].handler)
    /\ registrations[1].handler # registrations[3].handler
    /\ Len(invoked) = 1
    /\ invoked[1].handler = registrations[3].handler
    /\ handlers[registrations[2].stage] = registrations[2].handler

\* C4: a request whose stage has no registration invokes no handler and gets
\* a ResponseCache with code 500, no header and the body "Internal Server
\* Error", whatever the decode error is; the call produces nothing else.
C4_UnregisteredStageGets500 ==
    (muxCall # NoCall /\ ~HasRegistration(muxCall.ar.Stage, muxCall.registered)) =>
        /\ invoked = <<>>
        /\ panicked = ""
        /\ rd # Nil
        /\ rd.type = "ResponseCache"
        /\ rd.Code = 500
        /\ DOMAIN rd.HeaderCache = {}
        /\ rd.Body = <<"Internal Server Error">>

\* C4's case: other stages are registered, the request's is not, a decode
\* error came with it, and the 500 response was returned.
C4_Witness ==
    /\ muxCall # NoCall
    /\ muxCall.registered > 0
    /\ ~HasRegistration(muxCall.ar.Stage, muxCall.registered)
    /\ muxCall.decodeErr # Nil
    /\ rd # Nil
    /\ rd.Code = 500

\* C5: a request whose stage has a registered handler makes that handler run
\* exactly once, with the context, request and decode error the mux got; no
\* other handler runs; the mux returns what the handler returned (nil when it
\* returned nil) and never its own 500 fallback.
C5_RegisteredHandlerInvokedOnce ==
    (/\ muxCall # NoCall
     /\ HasRegistration(muxCall.ar.Stage, muxCall.registered)
     /\ IsHandler(LastRegistered(muxCall.ar.Stage, muxCall.registered))) =>
        LET h == LastRegistered(muxCall.ar.Stage, muxCall.registered)
            returned == HandlerReturns(IF h.kind = "func" THEN h.f ELSE h.name,
                                       muxCall.ctx, muxCall.ar, muxCall.decodeErr)
        IN  /\ invoked = <<[handler |-> h, ctx |-> muxCall.ctx,
                            ar |-> muxCall.ar, decodeErr |-> muxCall.decodeErr]>>
            /\ rd = returned
            /\ rd # Nil => rd.addr # "mux"
            /\ panicked = ""

\* C5's case: a registered handler got a decode error and returned nil, and
\* so did the mux.
C5_Witness ==
    /\ muxCall # NoCall
    /\ muxCall.decodeErr # Nil
    /\ Len(invoked) = 1
    /\ invoked[1].handler = [kind |-> "object", name |-> "h1"]
    /\ invoked[1].decodeErr = muxCall.decodeErr
    /\ rd = Nil

\* C6: for every registry Add/AddFunc can build, also with a nil handler
\* value, and every request, HandleAuthorizeRequest never fails: it returns,
\* and it returns nil only when a registered handler ran and returned nil.
C6_DispatchNeverFails ==
    muxCall # NoCall =>
        /\ panicked = ""
        /\ rd = Nil => Len(invoked) = 1

(***************************************************************************)
(* The inputs of the decoder                                               *)
(***************************************************************************)

\* The longest run of cutset characters put in front of a query value.
MaxPad == 1

\* Every string over S of length at most n.
SeqsUpTo(S, n) == UNION {[1..k -> S] : k \in 0..n}

LeadPads == SeqsUpTo(Cutset, MaxPad)

\* A value without cutset characters at either end (one has some inside, one
\* differs from "code" in case only) and the cutset characters put after it.
CoreTrails ==
    { <<<<>>, <<>>>>, <<<<>>, <<" ">>>>,
      <<code, <<>>>>, <<code, <<"\n", "\t">>>>,
      <<token, <<"\r">>>>,
      <<<<"c", "\t", " ", "o">>, <<" ">>>>,
      <<<<"C", "o", "d", "e">>, <<>>>> }

QueryValues == {l \o ct[1] \o ct[2] : l \in LeadPads, ct \in CoreTrails}

\* The values of response_type: none, one, or two (Get reads the first).
ResponseTypeLists ==
    {<<>>} \cup {<<v>> : v \in QueryValues}
           \cup {<<v, code>> : v \in {<<>>, <<" ">>, token}}

\* The values of the four other keys.
OtherValues ==
    { [client_id |-> << <<"\n", "i", "d", " ">> >>,
       redirect_uri |-> << <<" ", "/", "c", "b", "\t">>, <<"x">> >>,
       scope |-> << <<"\r", "a", " ", "b", "\r", "\n">> >>,
       state |-> << <<"\t", "\t">> >>],
      [client_id |-> << <<"i", "d">> >>,
       redirect_uri |-> <<>>,
       scope |-> << <<>>, <<"a">> >>,
       state |-> << <<"s", " ">> >>] }

Queries ==
    { [k \in QueryKeys |-> IF k = "response_type" THEN rt ELSE o[k]] :
        rt \in ResponseTypeLists, o \in OtherValues }

Contexts == {"ctx1", "ctx2"}

Requests == [ctx : Contexts, query : Queries]

\* The argument lists given to NewAuthorizeDecoder.
AllowLists ==
    { <<>>, <<code>>, <<token>>, <<token, code>>, <<code, code>>,
      << <<>> >>, << <<>>, code >>, << <<" ">> \o code >> }

InitDecoder ==
    /\ InitMux
    /\ decoderArgs \in AllowLists
    /\ allowedResponseTypes = NewAuthorizeDecoder(decoderArgs)
    /\ req = NoCall
    /\ dctx = NilContext
    /\ ar = Nil
    /\ err = Nil
    /\ IdleResponder
    /\ IdleCache
    /\ IdleEndpoint

NextDecoder == \E r \in Requests : DecodeAuthorize(r)

SpecDecoder == InitDecoder /\ [][NextDecoder]_vars

(***************************************************************************)
(* Properties of the decoder                                               *)
(***************************************************************************)

\* t is v without its leading and trailing cutset characters: v is
\* pre \o t \o post, pre and post hold cutset characters only, and t neither
\* starts nor ends with one.
IsTrimOf(t, v) ==
    \E i, j \in 0..Len(v) :
        /\ i + j <= Len(v)
        /\ t = SubSeq(v, i + 1, Len(v) - j)
        /\ \A k \in 1..i : v[k] \in {"\r", "\n", "\t", " "}
        /\ \A k \in (Len(v) - j + 1)..Len(v) : v[k] \in {"\r", "\n", "\t", " "}
        /\ t # <<>> => /\ t[1] \notin {"\r", "\n", "\t", " "}
                       /\ t[Len(t)] \notin {"\r", "\n", "\t", " "}

\* The value a query gives for a key: its first one, the empty string when
\* the key is absent.
QueryValue(q, key) == IF Len(q[key]) = 0 THEN <<>> ELSE q[key][1]

\* The trimmed value of a key of the query.
TrimmedValue(q, key) ==
    CHOOSE t \in {SubSeq(QueryValue(q, key), i, j) :
                    i \in 1..(Len(QueryValue(q, key)) + 1),
                    j \in 0..Len(QueryValue(q, key))} :
        IsTrimOf(t, QueryValue(q, key))

\* C1: DecodeAuthorize decides on the trimmed response_type in this order:
\* empty gives exactly "response_type is required but not set" (also when the
\* allow-set holds the empty string); else not an exact member of the
\* allow-set given to NewAuthorizeDecoder gives exactly
\* response_type "<trimmed value>" is not allowed; else the error is nil.  A
\* decoder built with no allowed type returns an error for every request.
C1_DecodeValidationOrder ==
    req # NoCall =>
        LET t == TrimmedValue(req.query, "response_type")
            member == \E i \in DOMAIN decoderArgs : decoderArgs[i] = t
        IN  /\ t = <<>> => err = [msg |-> <<"response_type is required but not set">>]
            /\ (t # <<>> /\ ~member) =>
                   err = [msg |-> <<"response_type \"">> \o t \o <<"\" is not allowed">>]
            /\ (t # <<>> /\ member) => err = Nil
            /\ decoderArgs = <<>> => err # Nil

\* C1's case: the allow-set holds the empty string, response_type holds
\* cutset characters only, and the call reported it as not set.
C1_Witness ==
    /\ req # NoCall
    /\ \E i \in DOMAIN decoderArgs : decoderArgs[i] = <<>>
    /\ QueryValue(req.query, "response_type") # <<>>
    /\ TrimmedValue(req.query, "response_type") = <<>>
    /\ err = [msg |-> <<"response_type is required but not set">>]

\* C2: DecodeAuthorize always returns a non-nil AuthorizeRequest, with or
\* without an error, and its ResponseType, ClientID, RedirectURI, Scope and
\* State are the query values without their leading and trailing \r, \n, \t
\* and space (interior characters unchanged).
C2_RequestAlwaysReturnedTrimmed ==
    req # NoCall =>
        /\ ar # Nil
        /\ IsTrimOf(ar.ResponseType, QueryValue(req.query, "response_type"))
        /\ IsTrimOf(ar.ClientID, QueryValue(req.query, "client_id"))
        /\ IsTrimOf(ar.RedirectURI, QueryValue(req.query, "redirect_uri"))
        /\ IsTrimOf(ar.Scope, QueryValue(req.query, "scope"))
        /\ IsTrimOf(ar.State, QueryValue(req.query, "state"))

\* C2's case: the call returned an error and a request whose scope lost its
\* padding and kept its interior space.
C2_Witness ==
    /\ req # NoCall
    /\ err # Nil
    /\ ar # Nil
    /\ QueryValue(req.query, "scope") = <<"\r", "a", " ", "b", "\r", "\n">>
    /\ ar.Scope = <<"a", " ", "b">>

(***************************************************************************)
(* Bytes and strings of the redirect URI                                   *)
(***************************************************************************)

\* The code of each character a URI, a parameter or a header key is made of
\* here (ASCII without ';', '@', '[' and ']', whose handling by net/url is
\* not modelled, and without the quotes and the backslash).
Ascii ==
    "\t" :> 9 @@ "\n" :> 10 @@ "\r" :> 13 @@ " " :> 32 @@ "!" :> 33 @@
    "#" :> 35 @@ "$" :> 36 @@ "%" :> 37 @@ "&" :> 38 @@ "(" :> 40 @@
    ")" :> 41 @@ "*" :> 42 @@ "+" :> 43 @@ "," :> 44 @@ "-" :> 45 @@
    "." :> 46 @@ "/" :> 47 @@ "0" :> 48 @@ "1" :> 49 @@ "2" :> 50 @@
    "3" :> 51 @@ "4" :> 52 @@ "5" :> 53 @@ "6" :> 54 @@ "7" :> 55 @@
    "8" :> 56 @@ "9" :> 57 @@ ":" :> 58 @@ "<" :> 60 @@ "=" :> 61 @@
    ">" :> 62 @@ "?" :> 63 @@ "A" :> 65 @@ "B" :> 66 @@ "C" :> 67 @@
    "D" :> 68 @@ "E" :> 69 @@ "F" :> 70 @@ "G" :> 71 @@ "H" :> 72 @@
    "I" :> 73 @@ "J" :> 74 @@ "K" :> 75 @@ "L" :> 76 @@ "M" :> 77 @@
    "N" :> 78 @@ "O" :> 79 @@ "P" :> 80 @@ "Q" :> 81 @@ "R" :> 82 @@
    "S" :> 83 @@ "T" :> 84 @@ "U" :> 85 @@ "V" :> 86 @@ "W" :> 87 @@
    "X" :> 88 @@ "Y" :> 89 @@ "Z" :> 90 @@ "^" :> 94 @@ "_" :> 95 @@
    "a" :> 97 @@ "b" :> 98 @@ "c" :> 99 @@ "d" :> 100 @@ "e" :> 101 @@
    "f" :> 102 @@ "g" :> 103 @@ "h" :> 104 @@ "i" :> 105 @@ "j" :> 106 @@
    "k" :> 107 @@ "l" :> 108 @@ "m" :> 109 @@ "n" :> 110 @@ "o" :> 111 @@
    "p" :> 112 @@ "q" :> 113 @@ "r" :> 114 @@ "s" :> 115 @@ "t" :> 116 @@
    "u" :> 117 @@ "v" :> 118 @@ "w" :> 119 @@ "x" :> 120 @@ "y" :> 121 @@
    "z" :> 122 @@ "{" :> 123 @@ "|" :> 124 @@ "}" :> 125 @@ "~" :> 126

\* The character of a code.
CharOf(n) == CHOOSE c \in DOMAIN Ascii : Ascii[c] = n

IsLower(c) == Ascii[c] >= 97 /\ Ascii[c] <= 122
IsUpper(c) == Ascii[c] >= 65 /\ Ascii[c] <= 90
IsLetter(c) == IsLower(c) \/ IsUpper(c)
IsDigit(c) == Ascii[c] >= 48 /\ Ascii[c] <= 57

\* strings.ToLower, strings.ToUpper on one character and strings.ToLower.
ToLowerChar(c) == IF IsUpper(c) THEN CharOf(Ascii[c] + 32) ELSE c
ToUpperChar(c) == IF IsLower(c) THEN CharOf(Ascii[c] - 32) ELSE c
ToLower(s) == [i \in 1..Len(s) |-> ToLowerChar(s[i])]

\* strings.Index(s, c) for a one-character c, counted from 1; 0 when absent.
Index(s, c) ==
    IF \E i \in 1..Len(s) : s[i] = c
    THEN CHOOSE i \in 1..Len(s) : s[i] = c /\ \A j \in 1..(i - 1) : s[j] # c
    ELSE 0

\* strings.LastIndex(s, c), counted from 1; 0 when absent.
LastIndex(s, c) ==
    IF \E i \in 1..Len(s) : s[i] = c
    THEN CHOOSE i \in 1..Len(s) : s[i] = c /\ \A j \in (i + 1)..Len(s) : s[j] # c
    ELSE 0

\* strings.Count(s, c)
Count(s, c) == Cardinality({i \in 1..Len(s) : s[i] = c})

\* strings.Contains(s, c)
Contains(s, c) == Index(s, c) # 0

\* strings.HasPrefix(s, p)
HasPrefix(s, p) == Len(s) >= Len(p) /\ SubSeq(s, 1, Len(p)) = p

\* strings.Cut(s, c): the text before and after the first c.
Cut(s, c) ==
    IF Index(s, c) = 0
    THEN [before |-> s, after |-> <<>>, found |-> FALSE]
    ELSE [before |-> SubSeq(s, 1, Index(s, c) - 1),
          after |-> SubSeq(s, Index(s, c) + 1, Len(s)),
          found |-> TRUE]

\* s < t byte-wise, the order slices.Sort gives strings.
RECURSIVE StringLess(_, _)
StringLess(s, t) ==
    IF t = <<>> THEN FALSE
    ELSE IF s = <<>> THEN TRUE
    ELSE IF Ascii[Head(s)] # Ascii[Head(t)] THEN Ascii[Head(s)] < Ascii[Head(t)]
    ELSE StringLess(Tail(s), Tail(t))

\* slices.Sort on a set of distinct strings.
RECURSIVE SortStrings(_)
SortStrings(S) ==
    IF S = {} THEN <<>>
    ELSE LET least == CHOOSE s \in S : \A t \in S \ {s} : StringLess(s, t)
         IN  <<least>> \o SortStrings(S \ {least})

(***************************************************************************)
(* net/url: escaping                                                       *)
(***************************************************************************)

HexDigits == <<"0", "1", "2", "3", "4", "5", "6", "7",
               "8", "9", "A", "B", "C", "D", "E", "F">>

\* ishex and unhex of net/url.
IsHex(c) == IsDigit(c) \/ ToUpperChar(c) \in {"A", "B", "C", "D", "E", "F"}
UnHex(c) == (CHOOSE i \in 1..16 : HexDigits[i] = ToUpperChar(c)) - 1

\* shouldEscape(c, mode) of net/url, for the modes the redirect goes through.
ShouldEscape(c, mode) ==
    IF IsLetter(c) \/ IsDigit(c) THEN FALSE
    ELSE IF mode = "encodeHost" /\
            c \in {"!", "$", "&", "(", ")", "*", "+", ",", "=", ":", "<", ">"}
    THEN FALSE
    ELSE IF c \in {"-", "_", ".", "~"} THEN FALSE
    ELSE IF c \in {"$", "&", "+", ",", "/", ":", "=", "?"}
    THEN CASE mode = "encodePath" -> c = "?"
           [] mode = "encodeQueryComponent" -> TRUE
           [] mode = "encodeFragment" -> FALSE
           [] OTHER -> TRUE
    ELSE IF mode = "encodeFragment" /\ c \in {"!", "(", ")", "*"} THEN FALSE
    ELSE TRUE

\* The escape of one character.
EscapeChar(c, mode) ==
    IF ~ShouldEscape(c, mode) THEN <<c>>
    ELSE IF c = " " /\ mode = "encodeQueryComponent" THEN <<"+">>
    ELSE <<"%", HexDigits[(Ascii[c] \div 16) + 1], HexDigits[(Ascii[c] % 16) + 1]>>

\* escape(s, mode) of net/url.
RECURSIVE Escape(_, _)
Escape(s, mode) ==
    IF s = <<>> THEN <<>> ELSE EscapeChar(Head(s), mode) \o Escape(Tail(s), mode)

\* strconv.Quote(s), the text %q prints: quoted, the control characters
\* escaped.
RECURSIVE QuoteInner(_)
QuoteInner(s) ==
    IF s = <<>> THEN <<>>
    ELSE (CASE Head(s) = "\n" -> <<"\\", "n">>
            [] Head(s) = "\r" -> <<"\\", "r">>
            [] Head(s) = "\t" -> <<"\\", "t">>
            [] OTHER -> <<Head(s)>>) \o QuoteInner(Tail(s))

Quote(s) == <<"\"">> \o QuoteInner(s) \o <<"\"">>

\* EscapeError(e).Error() and InvalidHostError(e).Error() of net/url.
EscapeError(e) == <<"invalid URL escape ">> \o Quote(e)
InvalidHostError(e) == <<"invalid character ">> \o Quote(e) \o <<" in host name">>

\* The first loop of unescape(s, mode): the text of the error it returns, ""
\* when it returns none.  A % must start a well-formed escape (in a host only
\* %25 or a byte above 0x7F), and a host may hold no character that must be
\* escaped.
RECURSIVE UnescapeError(_, _)
UnescapeError(s, mode) ==
    IF s = <<>> THEN <<>>
    ELSE IF Head(s) = "%"
    THEN IF Len(s) < 3 \/ ~IsHex(s[2]) \/ ~IsHex(s[3])
         THEN EscapeError(SubSeq(s, 1, IF Len(s) > 3 THEN 3 ELSE Len(s)))
         ELSE IF /\ mode = "encodeHost"
                 /\ UnHex(s[2]) < 8
                 /\ SubSeq(s, 1, 3) # <<"%", "2", "5">>
         THEN EscapeError(SubSeq(s, 1, 3))
         ELSE UnescapeError(SubSeq(s, 4, Len(s)), mode)
    ELSE IF mode = "encodeHost" /\ Head(s) # "+" /\ ShouldEscape(Head(s), "encodeHost")
    THEN InvalidHostError(<<Head(s)>>)
    ELSE UnescapeError(Tail(s), mode)

\* The second loop of unescape(s, mode), on an s the first loop accepts.
RECURSIVE Unescaped(_, _)
Unescaped(s, mode) ==
    IF s = <<>> THEN <<>>
    ELSE IF Head(s) = "%"
    THEN <<CharOf(UnHex(s[2]) * 16 + UnHex(s[3]))>> \o Unescaped(SubSeq(s, 4, Len(s)), mode)
    ELSE IF Head(s) = "+" /\ mode = "encodeQueryComponent"
    THEN <<" ">> \o Unescaped(Tail(s), mode)
    ELSE <<Head(s)>> \o Unescaped(Tail(s), mode)

\* What unescape returns when its first loop ends with the error e.
UnescapeReturns(s, mode, e) ==
    IF e = <<>>
    THEN [ok |-> TRUE, s |-> Unescaped(s, mode), err |-> <<>>]
    ELSE [ok |-> FALSE, s |-> <<>>, err |-> e]

\* unescape(s, mode) of net/url: the text, or the error.
Unescape(s, mode) == UnescapeReturns(s, mode, UnescapeError(s, mode))

\* validEncoded(s, mode) of net/url.
ValidEncoded(s, mode) ==
    \A i \in 1..Len(s) :
        \/ s[i] \in {"!", "$", "&", "(", ")", "*", "+", ",", "=", ":", "%"}
        \/ ~ShouldEscape(s[i], mode)

\* url.QueryEscape and url.QueryUnescape
QueryEscape(s) == Escape(s, "encodeQueryComponent")
QueryUnescape(s) == Unescape(s, "encodeQueryComponent")

(***************************************************************************)
(* net/url: URL, Parse, Query, Values, String                              *)
(***************************************************************************)

\* new(URL): the fields Parse and String read.  URL.User stays nil: no
\* input holds an '@'.
NewURL ==
    [Scheme |-> <<>>, Opaque |-> <<>>, Host |-> <<>>, Path |-> <<>>,
     RawPath |-> <<>>, OmitHost |-> FALSE, ForceQuery |-> FALSE,
     RawQuery |-> <<>>, Fragment |-> <<>>, RawFragment |-> <<>>]

\* A result of the parser: the URL, or the text of the error.
Parsed(u) == [ok |-> TRUE, url |-> u, reason |-> <<>>]
ParseFailure(reason) == [ok |-> FALSE, url |-> NewURL, reason |-> reason]

\* stringContainsCTLByte(s)
StringContainsCTLByte(s) == \E i \in 1..Len(s) : Ascii[s[i]] < 32 \/ Ascii[s[i]] = 127

\* getScheme(rawURL): the scheme, the rest, or the failure.  i is the
\* position the loop is at.
RECURSIVE GetSchemeFrom(_, _)
GetSchemeFrom(rawURL, i) ==
    IF i > Len(rawURL) THEN [ok |-> TRUE, scheme |-> <<>>, rest |-> rawURL]
    ELSE IF IsLetter(rawURL[i]) THEN GetSchemeFrom(rawURL, i + 1)
    ELSE IF IsDigit(rawURL[i]) \/ rawURL[i] \in {"+", "-", "."}
    THEN IF i = 1 THEN [ok |-> TRUE, scheme |-> <<>>, rest |-> rawURL]
         ELSE GetSchemeFrom(rawURL, i + 1)
    ELSE IF rawURL[i] = ":"
    THEN IF i = 1 THEN [ok |-> FALSE, scheme |-> <<>>, rest |-> <<>>]
         ELSE [ok |-> TRUE, scheme |-> SubSeq(rawURL, 1, i - 1),
               rest |-> SubSeq(rawURL, i + 1, Len(rawURL))]
    ELSE [ok |-> TRUE, scheme |-> <<>>, rest |-> rawURL]

GetScheme(rawURL) == GetSchemeFrom(rawURL, 1)

\* validOptionalPort(port)
ValidOptionalPort(port) ==
    \/ port = <<>>
    \/ /\ port[1] = ":"
       /\ \A i \in 2..Len(port) : IsDigit(port[i])

\* The end of parseHost: what unescape(host, encodeHost) returned.
HostUnescaped(unescaped) ==
    [ok |-> unescaped.ok, host |-> unescaped.s, reason |-> unescaped.err]

\* parseHost(host), for a host that is no IP literal: the host, or the error.
ParseHost(host) ==
    IF /\ LastIndex(host, ":") # 0
       /\ ~ValidOptionalPort(SubSeq(host, LastIndex(host, ":"), Len(host)))
    THEN [ok |-> FALSE, host |-> <<>>,
          reason |-> <<"invalid port ">>
                     \o Quote(SubSeq(host, LastIndex(host, ":"), Len(host)))
                     \o <<" after host">>]
    ELSE HostUnescaped(Unescape(host, "encodeHost"))

\* The end of u.setPath(p): what unescape(p, encodePath) returned.
PathUnescaped(u, p, unescaped) ==
    IF ~unescaped.ok THEN ParseFailure(unescaped.err)
    ELSE Parsed([u EXCEPT !.Path = unescaped.s,
                          !.RawPath = IF Escape(unescaped.s, "encodePath") = p
                                      THEN <<>> ELSE p])

\* u.setPath(p): the URL, or the error.
SetPath(u, p) == PathUnescaped(u, p, Unescape(p, "encodePath"))

\* The end of u.setFragment(f): what unescape(f, encodeFragment) returned.
FragmentUnescaped(u, f, unescaped) ==
    IF ~unescaped.ok THEN ParseFailure(unescaped.err)
    ELSE Parsed([u EXCEPT !.Fragment = unescaped.s,
                          !.RawFragment = IF Escape(unescaped.s, "encodeFragment") = f
                                          THEN <<>> ELSE f])

\* u.setFragment(f): the URL, or the error.
SetFragment(u, f) == FragmentUnescaped(u, f, Unescape(f, "encodeFragment"))

\* The authority of "//authority/path", and the path.
AuthorityOf(after) ==
    IF Index(after, "/") = 0 THEN after ELSE SubSeq(after, 1, Index(after, "/") - 1)
PathAfterAuthority(after) ==
    IF Index(after, "/") = 0 THEN <<>> ELSE SubSeq(after, Index(after, "/"), Len(after))

\* parse, the authority parsed to h: the host is kept and the path set.
HostParsed(u, h, path) ==
    IF ~h.ok THEN ParseFailure(h.reason) ELSE SetPath([u EXCEPT !.Host = h.host], path)

\* The end of parse(rawURL, false): the authority and the path of rest.
ParseAuthorityAndPath(u, rest) ==
    IF (u.Scheme # <<>> \/ ~HasPrefix(rest, <<"/", "/", "/">>))
       /\ HasPrefix(rest, <<"/", "/">>)
    THEN HostParsed(u, ParseHost(AuthorityOf(SubSeq(rest, 3, Len(rest)))),
                    PathAfterAuthority(SubSeq(rest, 3, Len(rest))))
    ELSE SetPath([u EXCEPT !.OmitHost = (u.Scheme # <<>> /\ HasPrefix(rest, <<"/">>))],
                 rest)

\* parse, the query cut off: an opaque URL, a first segment with a colon, or
\* the authority and the path.
ParseRest(u, rest) ==
    IF ~HasPrefix(rest, <<"/">>) /\ u.Scheme # <<>>
    THEN Parsed([u EXCEPT !.Opaque = rest])
    ELSE IF ~HasPrefix(rest, <<"/">>) /\ Contains(Cut(rest, "/").before, ":")
    THEN ParseFailure(<<"first path segment in URL cannot contain colon">>)
    ELSE ParseAuthorityAndPath(u, rest)

\* rest ends in its only '?': the query is empty and forced.
EndsInOnlyQuestionMark(rest) ==
    rest # <<>> /\ rest[Len(rest)] = "?" /\ Count(rest, "?") = 1

\* parse, the scheme taken: the query is cut off.
ParseAfterScheme(scheme, rest) ==
    ParseRest([NewURL EXCEPT !.Scheme = scheme,
                             !.ForceQuery = EndsInOnlyQuestionMark(rest),
                             !.RawQuery = IF EndsInOnlyQuestionMark(rest) THEN <<>>
                                          ELSE Cut(rest, "?").after],
              IF EndsInOnlyQuestionMark(rest) THEN SubSeq(rest, 1, Len(rest) - 1)
              ELSE Cut(rest, "?").before)

\* parse, getScheme returned: the scheme is lower-cased.
SchemeTaken(g) ==
    IF ~g.ok THEN ParseFailure(<<"missing protocol scheme">>)
    ELSE ParseAfterScheme(ToLower(g.scheme), g.rest)

\* parse(rawURL, false) of net/url.
ParseNoFragment(rawURL) ==
    IF StringContainsCTLByte(rawURL)
    THEN ParseFailure(<<"net/url: invalid control character in URL">>)
    ELSE IF rawURL = <<"*">> THEN Parsed([NewURL EXCEPT !.Path = <<"*">>])
    ELSE SchemeTaken(GetScheme(rawURL))

\* (&url.Error{"parse", url, err}).Error(): parse "<url>": <err>
URLError(url, reason) ==
    [ok |-> FALSE, url |-> NewURL,
     err |-> <<"parse ">> \o Quote(url) \o <<": ">> \o reason]

\* The end of url.Parse: what setFragment returned.
FragmentParsed(rawURL, f) ==
    IF ~f.ok THEN URLError(rawURL, f.reason) ELSE [ok |-> TRUE, url |-> f.url, err |-> <<>>]

\* url.Parse, rawURL cut at '#' into u and frag and u parsed to p.
URLParsed(rawURL, u, frag, p) ==
    IF ~p.ok THEN URLError(u, p.reason)
    ELSE IF frag = <<>> THEN [ok |-> TRUE, url |-> p.url, err |-> <<>>]
    ELSE FragmentParsed(rawURL, SetFragment(p.url, frag))

\* url.Parse(rawURL): the URL, or the text of the *url.Error.
Parse(rawURL) ==
    URLParsed(rawURL, Cut(rawURL, "#").before, Cut(rawURL, "#").after,
              ParseNoFragment(Cut(rawURL, "#").before))

\* v.Add(key, value) on url.Values and on the map of an http.Header.
ValuesAdd(v, key, value) ==
    [k \in (DOMAIN v) \cup {key} |->
        IF k = key
        THEN (IF key \in DOMAIN v THEN v[key] ELSE <<>>) \o <<value>>
        ELSE v[k]]

\* parseQuery(m, query) of net/url: the pieces between '&' are added one by
\* one; an empty piece and a piece that does not unescape are left out.
RECURSIVE ParseQueryInto(_, _)

\* One piece cut into key and value and both unescaped.
PairAdded(m, key, value, rest) ==
    ParseQueryInto(IF key.ok /\ value.ok THEN ValuesAdd(m, key.s, value.s) ELSE m, rest)

\* One piece cut off the query.
PieceAdded(m, piece, rest) ==
    IF piece = <<>> THEN ParseQueryInto(m, rest)
    ELSE PairAdded(m, QueryUnescape(Cut(piece, "=").before),
                   QueryUnescape(Cut(piece, "=").after), rest)

ParseQueryInto(m, query) ==
    IF query = <<>> THEN m
    ELSE PieceAdded(m, Cut(query, "&").before, Cut(query, "&").after)

\* u.Query(): url.ParseQuery(u.RawQuery) with its error dropped.
Query(u) == ParseQueryInto(<<>>, u.RawQuery)

\* The key=value pairs Encode writes for one key.
RECURSIVE EncodePairs(_, _)
EncodePairs(keyEscaped, vs) ==
    IF vs = <<>> THEN <<>>
    ELSE <<keyEscaped \o <<"=">> \o QueryEscape(Head(vs))>> \o EncodePairs(keyEscaped, Tail(vs))

\* The pairs Encode writes for the keys, in the order given.
RECURSIVE EncodeKeys(_, _)
EncodeKeys(v, keys) ==
    IF keys = <<>> THEN <<>>
    ELSE EncodePairs(QueryEscape(Head(keys)), v[Head(keys)]) \o EncodeKeys(v, Tail(keys))

\* strings.Join(parts, sep)
RECURSIVE Join(_, _)
Join(parts, sep) ==
    IF parts = <<>> THEN <<>>
    ELSE IF Len(parts) = 1 THEN parts[1]
    ELSE parts[1] \o sep \o Join(Tail(parts), sep)

\* v.Encode() of url.Values: "key=value" pairs joined by '&', keys sorted.
Encode(v) == Join(EncodeKeys(v, SortStrings(DOMAIN v)), <<"&">>)

\* u.EscapedPath()
EscapedPath(u) ==
    IF /\ u.RawPath # <<>>
       /\ ValidEncoded(u.RawPath, "encodePath")
       /\ Unescape(u.RawPath, "encodePath") = [ok |-> TRUE, s |-> u.Path, err |-> <<>>]
    THEN u.RawPath
    ELSE IF u.Path = <<"*">> THEN <<"*">>
    ELSE Escape(u.Path, "encodePath")

\* u.EscapedFragment()
EscapedFragment(u) ==
    IF /\ u.RawFragment # <<>>
       /\ ValidEncoded(u.RawFragment, "encodeFragment")
       /\ Unescape(u.RawFragment, "encodeFragment") = [ok |-> TRUE, s |-> u.Fragment, err |-> <<>>]
    THEN u.RawFragment
    ELSE Escape(u.Fragment, "encodeFragment")

\* What u.String() writes for the authority: "//" and the host.
AuthorityString(u) ==
    IF (u.Scheme # <<>> \/ u.Host # <<>>) /\ ~(u.OmitHost /\ u.Host = <<>>)
    THEN (IF u.Host # <<>> \/ u.Path # <<>> THEN <<"/", "/">> ELSE <<>>)
         \o Escape(u.Host, "encodeHost")
    ELSE <<>>

\* What u.String() writes between the scheme and the query.
HierarchyString(u, authority, path) ==
    authority
    \o (IF path # <<>> /\ path[1] # "/" /\ u.Host # <<>> THEN <<"/">> ELSE <<>>)
    \o (IF u.Scheme = <<>> /\ authority = <<>> /\ Contains(Cut(path, "/").before, ":")
        THEN <<".", "/">> ELSE <<>>)
    \o path

\* u.String() of net/url, for a URL without user information.
URLString(u) ==
    (IF u.Scheme # <<>> THEN u.Scheme \o <<":">> ELSE <<>>)
    \o (IF u.Opaque # <<>> THEN u.Opaque
        ELSE HierarchyString(u, AuthorityString(u), EscapedPath(u)))
    \o (IF u.ForceQuery \/ u.RawQuery # <<>> THEN <<"?">> \o u.RawQuery ELSE <<>>)
    \o (IF u.Fragment # <<>> THEN <<"#">> \o EscapedFragment(u) ELSE <<>>)

(***************************************************************************)
(* net/http: Header and ResponseWriter                                     *)
(***************************************************************************)

\* validHeaderFieldByte(c) of net/textproto: a token character.
ValidHeaderFieldByte(c) ==
    \/ IsLetter(c)
    \/ IsDigit(c)
    \/ c \in {"!", "#", "$", "%", "&", "*", "+", "-", ".", "^", "_", "|", "~"}

\* The canonical form of a key of token characters: upper case at the start
\* and after each '-', lower case elsewhere.  i is the position reached.
RECURSIVE CanonicalFrom(_, _)
CanonicalFrom(s, i) ==
    IF i > Len(s) THEN <<>>
    ELSE <<IF i = 1 \/ s[i - 1] = "-" THEN ToUpperChar(s[i]) ELSE ToLowerChar(s[i])>>
         \o CanonicalFrom(s, i + 1)

\* textproto.CanonicalMIMEHeaderKey(s): a key holding another character is
\* returned as it is.
CanonicalMIMEHeaderKey(s) ==
    IF \A i \in 1..Len(s) : ValidHeaderFieldByte(s[i]) THEN CanonicalFrom(s, 1) ELSE s

StatusTemporaryRedirect == 307

Location == <<"L", "o", "c", "a", "t", "i", "o", "n">>

\* An http.ResponseWriter: its header map and what was done to it, in order.
HeaderEvent(op, key, value) == [op |-> op, key |-> key, value |-> value, code |-> 0]
StatusEvent(c) == [op |-> "WriteHeader", key |-> <<>>, value |-> <<>>, code |-> c]

\* w.Header().Add(key, value)
HeaderAdd(w, key, value) ==
    [header |-> ValuesAdd(w.header, CanonicalMIMEHeaderKey(key), value),
     events |-> Append(w.events, HeaderEvent("Header.Add", CanonicalMIMEHeaderKey(key), value))]

\* w.Header().Set(key, value)
HeaderSet(w, key, value) ==
    [header |-> MapSet(w.header, CanonicalMIMEHeaderKey(key), <<value>>),
     events |-> Append(w.events, HeaderEvent("Header.Set", CanonicalMIMEHeaderKey(key), value))]

\* w.WriteHeader(code)
WriteHeader(w, c) == [header |-> w.header, events |-> Append(w.events, StatusEvent(c))]

(***************************************************************************)
(* RedirectResponse                                                        *)
(***************************************************************************)

\* The inner loop of the header copy: every value of one key is added.
RECURSIVE AddHeaderValues(_, _, _)
AddHeaderValues(w, key, values) ==
    IF values = <<>> THEN w
    ELSE AddHeaderValues(HeaderAdd(w, key, Head(values)), key, Tail(values))

\* The header copy of ResponseTo: "for key, values := range HeaderCache",
\* the keys met in the order given (a Go map is ranged over in any order).
RECURSIVE CopyHeader(_, _, _)
CopyHeader(w, headerCache, order) ==
    IF order = <<>> THEN w
    ELSE CopyHeader(AddHeaderValues(w, Head(order), headerCache[Head(order)]),
                    headerCache, Tail(order))

\* The inner loop of the query merge: every value of one key is added.
RECURSIVE AddQueryValues(_, _, _)
AddQueryValues(query, key, values) ==
    IF values = <<>> THEN query
    ELSE AddQueryValues(ValuesAdd(query, key, Head(values)), key, Tail(values))

\* A plausible slip: query.Set in place of query.Add.
RECURSIVE MergeQuerySetting(_, _, _)
MergeQuerySetting(query, added, order) ==
    IF order = <<>> THEN query
    ELSE MergeQuerySetting(IF added[Head(order)] = <<>> THEN query
                           ELSE MapSet(query, Head(order),
                                       <<added[Head(order)][Len(added[Head(order)])]>>),
                           added, Tail(order))

\* The query merge of ResponseTo: "for key, values := range rr.Query", the
\* keys met in the order given.
RECURSIVE MergeQuery(_, _, _)
MergeQuery(query, added, order) ==
    IF order = <<>> THEN query
    ELSE MergeQuery(AddQueryValues(query, Head(order), added[Head(order)]),
                    added, Tail(order))

\* A plausible slip: the URI is refused only when scheme and host both lack.
NotFullURIWhenBothLack(u) == u.Scheme = <<>> /\ u.Host = <<>>

\* The third check of ResponseTo: the parsed URI is no full URI.
NotFullURI(u) == u.Scheme = <<>> \/ u.Host = <<>>

ErrRedirectURINotSet == Error(<<"redirect_uri not set">>)

ErrRedirectURIMisformed(parseError) ==
    Error(<<"redirect_uri is misformed. ">> \o parseError)

ErrRedirectURINotFull(redirectURI) ==
    Error(<<"redirect_uri is misformed. expected a full URI but got \"">>
          \o redirectURI \o <<"\"">>)

\* A plausible slip: the Location is added to the values already there.
LocationAdded(w, value) == HeaderAdd(w, Location, value)

\* w.Header().Set("Location", redirectURI.String())
LocationSet(w, value) == HeaderSet(w, Location, value)

\* The URI ResponseTo redirects to: the parsed redirect_uri with the merged
\* query and the encoded fragment.
RedirectTarget(u, r, queryOrder) ==
    [u EXCEPT !.RawQuery = Encode(MergeQuery(Query(u), r.Query, queryOrder)),
              !.Fragment = Encode(r.Fragment)]

\* ResponseTo, the redirect_uri parsed to p: the third check, and then the
\* Location header and the status.
RedirectURIParsed(r, w1, p, queryOrder) ==
    IF ~p.ok THEN [w |-> w1, err |-> ErrRedirectURIMisformed(p.err)]
    ELSE IF NotFullURI(p.url) THEN [w |-> w1, err |-> ErrRedirectURINotFull(r.RedirectURI)]
    ELSE [w |-> WriteHeader(LocationSet(w1, URLString(RedirectTarget(p.url, r, queryOrder))),
                            StatusTemporaryRedirect),
          err |-> Nil]

\* ResponseTo, the HeaderCache copied to the writer: the first check, and
\* the redirect_uri is parsed.
HeaderCacheCopied(r, w1, queryOrder) ==
    IF r.RedirectURI = <<>> THEN [w |-> w1, err |-> ErrRedirectURINotSet]
    ELSE RedirectURIParsed(r, w1, Parse(r.RedirectURI), queryOrder)

\* What rr.ResponseTo(w) does to the writer and returns, the keys of
\* HeaderCache and of Query met in the orders given.
RedirectResponseToResult(r, w0, headerOrder, queryOrder) ==
    HeaderCacheCopied(r, CopyHeader(w0, r.HeaderCache, headerOrder), queryOrder)

(***************************************************************************)
(* The redirect responder: its inputs and its specification                *)
(***************************************************************************)

\* The writer as the call leaves it, and the error returned.
Returned(res) ==
    /\ rw' = res.w
    /\ rerr' = res.err

\* rr.ResponseTo(w0): the whole call, the maps ranged over in the orders given.
RedirectResponseTo(w0, headerOrder, queryOrder) ==
    /\ rr # Nil
    /\ Returned(RedirectResponseToResult(rr, w0, headerOrder, queryOrder))
    /\ rwBefore' = w0
    /\ ranged' = [header |-> headerOrder, query |-> queryOrder]
    /\ UNCHANGED rr
    /\ UNCHANGED decVars
    /\ UNCHANGED muxVars
    /\ UNCHANGED cacheVars
    /\ UNCHANGED endpointVars

\* The orders a "range" may meet the keys of a map in.
Orders(keys) ==
    { o \in [1..Cardinality(keys) -> keys] :
        \A i, j \in 1..Cardinality(keys) : i # j => o[i] # o[j] }

\* Redirect URIs put together from a scheme, an authority, a path and a tail.
SchemeParts == { <<>>, <<"s", ":">>, <<"H", ":">> }
AuthorityParts == { <<>>, <<"/", "/", "h">>, <<"/", "/">>, <<"/", "/", "h", ":", "8">> }
PathParts == { <<>>, <<"/", "p">>, <<"p">> }
TailParts == { <<>>, <<"?", "b", "=", "2", "&", "a", "=", "1", "#", "f">> }

ComposedURIs ==
    { s \o a \o p \o t : s \in SchemeParts, a \in AuthorityParts, p \in PathParts, t \in TailParts }

\* Queries and fragments the redirect URI comes with.
BaseQueries ==
    { <<>>,
      <<"?">>,
      <<"?", "a", "=", "1", "&", "b", "=", "2">>,
      <<"?", "b", "=", "2", "&", "a", "=", "1">>,
      <<"?", "a", "=", "1", "&", "a", "=", "0">>,
      <<"?", "k", "=", "%", "2", "6", "&", "&", "=", "v", "&", "z", "=", "%", "z", "z", "&", "k">>,
      <<"?", "a", "=", "+">> }
BaseFragments == { <<>>, <<"#", "g">> }

QueriedURIs == { <<"s", ":", "/", "/", "h", "/", "p">> \o q \o f : q \in BaseQueries, f \in BaseFragments }

\* The empty string, strings url.Parse refuses, and the URIs of the tests.
OtherURIs ==
    { <<>>,
      <<":", "x">>,
      <<"1", ":", "2">>,
      <<"s", ":", "/", "/", "h", "/", "\n">>,
      <<"s", ":", "/", "/", "h", ":", "x", "/">>,
      <<"/", "r", "e", "l", "a", "t", "i", "v", "e", "/", "p", "a", "t", "h">>,
      <<"s", ":", "/", "/", "h", "/", "%", "z", "z">>,
      <<"s", ":", "/", "/", "h", " ", "/", "p">>,
      <<"h", "t", "t", "p", "s", ":", "/", "/", "f", "o", "o", "b", "a", "r", ".", "c", "o", "m", "/", "p", "a", "t", "h", "/", "o", "a", "u", "t", "h", "2", "?", "h", "e", "l", "l", "o", "=", "w", "o", "r", "l", "d", "&", "f", "o", "o", "=", "b", "a", "r">> }

RedirectURIs == ComposedURIs \cup QueriedURIs \cup OtherURIs

\* What a handler puts into the maps of a RedirectResponse.
Payloads ==
    { [HeaderCache |-> EmptyMap,
       Query |-> EmptyMap,
       Fragment |-> EmptyMap],
      [HeaderCache |-> (<<"X", "-", "H", "e", "l", "l", "o", "-", "W", "o", "r", "l", "d">> :> <<<<"s", "i", "l", "l", "y", " ", "h", "e", "l", "l", "o">>>>),
       Query |-> (<<"a">> :> <<<<"1">>>>),
       Fragment |-> (<<"t">> :> <<<<"v">>>>)],
      [HeaderCache |-> (<<"L", "o", "c", "a", "t", "i", "o", "n">> :> <<<<"/", "o", "l", "d">>>>),
       Query |-> (<<"a">> :> <<<<"0">>, <<"1">>>>) @@ (<<"c">> :> <<<<"x", " ", "y", "&">>>>),
       Fragment |-> (<<"t">> :> <<<<"a", "&", "b">>>>) @@ (<<"e">> :> <<<<"1">>>>)],
      [HeaderCache |-> (<<"l", "o", "c", "a", "t", "i", "o", "n">> :> <<<<"/", "a">>, <<"/", "b">>>>) @@ (<<"x", "-", "y">> :> <<<<"1">>>>),
       Query |-> (<<"n">> :> <<>>) @@ (<<>> :> <<<<"e">>>>),
       Fragment |-> EmptyMap],
      [HeaderCache |-> EmptyMap,
       Query |-> (<<"a">> :> <<<<"0">>, <<"1">>>>) @@ (<<"c">> :> <<<<"x", " ", "y", "&">>>>),
       Fragment |-> EmptyMap],
      [HeaderCache |-> (<<"L", "o", "c", "a", "t", "i", "o", "n">> :> <<<<"/", "o", "l", "d">>>>),
       Query |-> EmptyMap,
       Fragment |-> (<<"t">> :> <<<<"v">>>>)],
      [HeaderCache |-> (<<"l", "o", "c", "a", "t", "i", "o", "n">> :> <<<<"/", "a">>, <<"/", "b">>>>) @@ (<<"x", "-", "y">> :> <<<<"1">>>>),
       Query |-> (<<"a">> :> <<<<"1">>>>),
       Fragment |-> EmptyMap],
      [HeaderCache |-> (<<"X", "-", "H", "e", "l", "l", "o", "-", "W", "o", "r", "l", "d">> :> <<<<"s", "i", "l", "l", "y", " ", "h", "e", "l", "l", "o">>>>),
       Query |-> (<<"n">> :> <<>>) @@ (<<>> :> <<<<"e">>>>),
       Fragment |-> (<<"t">> :> <<<<"a", "&", "b">>>>) @@ (<<"e">> :> <<<<"1">>>>)] }

Responders ==
    { [HeaderCache |-> p.HeaderCache, RedirectURI |-> u, Query |-> p.Query, Fragment |-> p.Fragment] :
        u \in RedirectURIs, p \in Payloads }

\* A writer nothing has been done to, and one that has a header already.
FreshWriter == [header |-> EmptyMap, events |-> <<>>]
Writers == { FreshWriter, HeaderSet(FreshWriter, <<"v", "a", "r", "y">>, <<"A", "c", "c", "e", "p", "t">>) }

InitRedirect ==
    /\ InitMux
    /\ IdleDecoder
    /\ rr \in Responders
    /\ ranged = NoCall
    /\ rwBefore = Nil
    /\ rw = Nil
    /\ rerr = Nil
    /\ IdleCache
    /\ IdleEndpoint

NextRedirect ==
    \E w0 \in Writers, headerOrder \in Orders(DOMAIN rr.HeaderCache),
       queryOrder \in Orders(DOMAIN rr.Query) :
        RedirectResponseTo(w0, headerOrder, queryOrder)

SpecRedirect == InitRedirect /\ [][NextRedirect]_vars

(***************************************************************************)
(* The redirect responder: properties                                      *)
(***************************************************************************)

\* A call of rr.ResponseTo has been made.
Responded == ranged # NoCall

\* The positions in the log of a writer of the status writes, of the body
\* writes and of the writes to one header.
StatusWrites(wr) == { i \in DOMAIN wr.events : wr.events[i].op = "WriteHeader" }
BodyWrites(wr) == { i \in DOMAIN wr.events : wr.events[i].op = "Write" }
HeaderWrites(wr, key) ==
    { i \in DOMAIN wr.events :
        wr.events[i].op \in {"Header.Add", "Header.Set"} /\ wr.events[i].key = key }

\* The first value of the Location header of a writer.
LocationOf(wr) == wr.header[Location][1]

\* The writer was redirected: it has a Location header and a status.
Redirected(wr) == Location \in DOMAIN wr.header /\ StatusWrites(wr) # {}

\* C7: whenever RedirectResponse.ResponseTo returns an error, the writer has
\* afterwards no Location header and no status code written to it, whatever
\* the HeaderCache, the Query and the Fragment of the responder hold.
C7_ErrorLeavesNoLocationAndNoStatus ==
    (Responded /\ rerr # Nil) =>
        (Location \notin DOMAIN rw.header /\ StatusWrites(rw) = {})

\* The error of the third check, for the redirect URI of rr.
NotFullURIError ==
    [msg |-> <<"redirect_uri is misformed. expected a full URI but got \"">>
             \o rr.RedirectURI \o <<"\"">>]

\* The redirect URI parsed to p: the error is returned exactly when the URI
\* lacks a scheme or lacks a host, and a URI with both is redirected to.
RefusedWhenSchemeOrHostLacks(p) ==
    p.ok =>
        /\ (rerr = NotFullURIError) <=> (p.url.Scheme = <<>> \/ p.url.Host = <<>>)
        /\ (p.url.Scheme # <<>> /\ p.url.Host # <<>>) => (rerr = Nil /\ Redirected(rw))

\* C8, amended: for a non-empty RedirectURI that parses, ResponseTo returns
\* the error
\*     redirect_uri is misformed. expected a full URI but got "<original>"
\* exactly when the parsed URI lacks a scheme or lacks a host; only a URI
\* that has both a scheme and a host passes the check and is redirected to.
C8_NotFullErrorWhenSchemeOrHostLacks ==
    (Responded /\ rr.RedirectURI # <<>>) => RefusedWhenSchemeOrHostLacks(Parse(rr.RedirectURI))

\* The redirect URI parsed to p: a host and no scheme.
HostWithoutScheme(p) == p.ok /\ p.url.Scheme = <<>> /\ p.url.Host # <<>>

\* A URI that has a host and no scheme has been refused with the error.
C8_Witness ==
    /\ Responded
    /\ rr.RedirectURI = <<"/", "/", "h", "/", "p">>
    /\ HostWithoutScheme(Parse(rr.RedirectURI))
    /\ rerr = NotFullURIError
    /\ ~Redirected(rw)

\* The redirect URI parsed to p: the error is returned exactly when the URI
\* lacks both, and a URI with a scheme or a host is redirected to.
RefusedWhenSchemeAndHostLack(p) ==
    p.ok =>
        /\ (rerr = NotFullURIError) <=> (p.url.Scheme = <<>> /\ p.url.Host = <<>>)
        /\ (p.url.Scheme # <<>> \/ p.url.Host # <<>>) => (rerr = Nil /\ Redirected(rw))

\* C8, as stated: the error is returned exactly when the parsed URI lacks
\* both a scheme and a host; a URI that has a scheme or a host is redirected
\* to.
C8_NotFullErrorWhenSchemeAndHostLack ==
    (Responded /\ rr.RedirectURI # <<>>) => RefusedWhenSchemeAndHostLack(Parse(rr.RedirectURI))

\* One piece of a query string cut at '=' and both sides unescaped.
PairOf(piece) ==
    [key |-> QueryUnescape(Cut(piece, "=").before),
     value |-> QueryUnescape(Cut(piece, "=").after)]

\* The key/value pairs of a query string in the order they stand in; an
\* empty piece and a piece that does not unescape is no pair.
RECURSIVE PairsOf(_)
PairsAfter(pair, rest) ==
    (IF pair.key.ok /\ pair.value.ok
     THEN <<[key |-> pair.key.s, value |-> pair.value.s]>> ELSE <<>>)
    \o PairsOf(rest)
PairsOf(query) ==
    IF query = <<>> THEN <<>>
    ELSE IF Cut(query, "&").before = <<>> THEN PairsOf(Cut(query, "&").after)
    ELSE PairsAfter(PairOf(Cut(query, "&").before), Cut(query, "&").after)

KeysOf(pairs) == { pairs[i].key : i \in DOMAIN pairs }

\* The values the pairs give a key, in order.
ValuesOf(pairs, k) ==
    LET sel == SelectSeq(pairs, LAMBDA p : p.key = k)
    IN  [i \in 1..Len(sel) |-> sel[i].value]

\* The values the Query map of rr adds to a key.
AddedValues(k) == IF k \in DOMAIN rr.Query THEN rr.Query[k] ELSE <<>>

\* The pairs out are the pairs base and then the pairs of rr.Query, key by
\* key, and stand in the byte-wise order of their keys.
MergedAndSorted(base, out) ==
    /\ \A k \in KeysOf(base) \cup KeysOf(out) \cup DOMAIN rr.Query :
          ValuesOf(out, k) = ValuesOf(base, k) \o AddedValues(k)
    /\ \A i, j \in DOMAIN out : i < j => ~StringLess(out[j].key, out[i].key)

\* C9: on success of RedirectResponse.ResponseTo the query of the Location
\* URI holds every key/value pair of the query of the base RedirectURI and
\* every pair of the Query map, none dropped or replaced (for a key of both
\* the base values first, the added values after them), the keys in
\* lexicographic order; the Location is the same whatever order the Query
\* map is ranged over in.
C9_QueryMergedAndSorted ==
    (Responded /\ rerr = Nil) =>
        /\ MergedAndSorted(PairsOf(Parse(rr.RedirectURI).url.RawQuery),
                           PairsOf(Parse(LocationOf(rw)).url.RawQuery))
        /\ \A queryOrder \in Orders(DOMAIN rr.Query) :
              RedirectResponseToResult(rr, rwBefore, ranged.header, queryOrder).w.header
                  = rw.header

\* A base query "b=2&a=1" and a Query map {a: [0, 1], c: ["x y&"]} ranged
\* over from "c" on have been merged.
C9_Witness ==
    /\ Responded
    /\ rerr = Nil
    /\ rr.RedirectURI = <<"s", ":", "/", "/", "h", "/", "p", "?", "b", "=", "2", "&", "a", "=", "1">>
    /\ rr.Query = (<<"a">> :> << <<"0">>, <<"1">> >>) @@ (<<"c">> :> << <<"x", " ", "y", "&">> >>)
    /\ rr.Fragment = EmptyMap
    /\ ranged.query[1] = <<"c">>
    /\ LocationOf(rw) = <<"s", ":", "/", "/", "h", "/", "p", "?", "a", "=", "1", "&", "a", "=", "0", "&", "a", "=", "1", "&", "b", "=", "2", "&", "c", "=", "x", "+", "y", "%", "2", "6">>

\* The Location of the writer names the scheme, the host and the path of the
\* URL base.
SameResource(base, loc) ==
    /\ loc.ok
    /\ loc.url.Scheme = base.Scheme
    /\ loc.url.Host = base.Host
    /\ loc.url.Path = base.Path

\* The call returned nil, and the writer shows one status, 307, written
\* last, no body, and one Location value, set right before the status.
RedirectWritten(base) ==
    /\ rerr = Nil
    /\ Cardinality(StatusWrites(rw)) = 1
    /\ BodyWrites(rw) = {}
    /\ Location \in DOMAIN rw.header
    /\ Len(rw.header[Location]) = 1
    /\ Len(rw.events) >= 2
    /\ rw.events[Len(rw.events)] =
          [op |-> "WriteHeader", key |-> <<>>, value |-> <<>>, code |-> 307]
    /\ rw.events[Len(rw.events) - 1] =
          [op |-> "Header.Set", key |-> Location, value |-> LocationOf(rw), code |-> 0]
    /\ SameResource(base, Parse(LocationOf(rw)))

\* The redirect URI parsed to p: if it has a scheme and a host, the redirect
\* is written.
WrittenWhenSchemeAndHost(p) ==
    (p.ok /\ p.url.Scheme # <<>> /\ p.url.Host # <<>>) => RedirectWritten(p.url)

\* C10, amended: when RedirectURI is non-empty, parses and has both a scheme
\* and a host, ResponseTo returns nil, writes status 307 exactly once,
\* writes no body, and leaves the Location header of the writer with exactly
\* one value, the reconstructed URI, set before the status is written (a
\* Location value copied from HeaderCache is replaced).
C10_RedirectWrittenForSchemeAndHost ==
    (Responded /\ rr.RedirectURI # <<>>) => WrittenWhenSchemeAndHost(Parse(rr.RedirectURI))

\* A HeaderCache with two Location values has been copied and the Location
\* then set: three writes to the header, one value left.
C10_Witness ==
    /\ Responded
    /\ rerr = Nil
    /\ <<"l", "o", "c", "a", "t", "i", "o", "n">> \in DOMAIN rr.HeaderCache
    /\ Cardinality(HeaderWrites(rw, Location)) = 3
    /\ rr.RedirectURI = <<"s", ":", "/", "/", "h", "/", "p", "?", "b", "=", "2", "&", "a", "=", "1", "#", "g">>
    /\ rr.Query = (<<"a">> :> << <<"1">> >>)
    /\ rw.header[Location] = << <<"s", ":", "/", "/", "h", "/", "p", "?", "a", "=", "1", "&", "a", "=", "1", "&", "b", "=", "2">> >>
    /\ StatusWrites(rw) = {Len(rw.events)}

\* The redirect URI parsed to p: if it is absolute, the redirect is written.
WrittenWhenAbsolute(p) ==
    (p.ok /\ (p.url.Scheme # <<>> \/ p.url.Host # <<>>)) => RedirectWritten(p.url)

\* C10, as stated: when RedirectURI is a non-empty, parseable, absolute URI
\* (one that does not lack both a scheme and a host), ResponseTo returns nil,
\* writes status 307 once and no body, and leaves exactly one Location value.
C10_RedirectWrittenForAbsolute ==
    (Responded /\ rr.RedirectURI # <<>>) => WrittenWhenAbsolute(Parse(rr.RedirectURI))

(***************************************************************************)
(* ResponseCache                                                           *)
(***************************************************************************)

\* An io.Reader without WriteTo: the chunks it has still to give, one per
\* Read, and the error it ends with (Nil for io.EOF).
Reader(chunks, fault) == [kind |-> "io.Reader", chunks |-> chunks, fault |-> fault]

\* strings.NewReader(s), read up to position i (counted in symbols).
StringsReader(s, i) == [kind |-> "strings.Reader", s |-> s, i |-> i]

\* r.s[r.i:] of a strings.Reader, empty when r.i >= len(r.s).
Unread(body) ==
    IF body.i >= Len(body.s) THEN <<>> ELSE SubSeq(body.s, body.i + 1, Len(body.s))

\* The error of a writer that fails a Write; it writes nothing then.
ErrWrite == Error(<<"write failed">>)

\* w.Write(p), done in full.
Write(w, p) ==
    [header |-> w.header,
     events |-> Append(w.events, [op |-> "Write", key |-> <<>>, value |-> p, code |-> 0])]

\* strings.Reader.WriteTo(w): nothing at the end of the string; else one
\* Write of all that is unread, and r.i grows by what was written.  n numbers
\* the next Write and the Write numbered failsAt fails.
WriteTo(w, body, failsAt, n) ==
    IF Unread(body) = <<>> THEN [w |-> w, body |-> body, err |-> Nil]
    ELSE IF n = failsAt THEN [w |-> w, body |-> body, err |-> ErrWrite]
    ELSE [w |-> Write(w, Unread(body)),
          body |-> StringsReader(body.s, body.i + Len(Unread(body))),
          err |-> Nil]

\* The loop of io.Copy for a reader without WriteTo: chunk after chunk is
\* read and written, until the reader is at its end (nil is returned), the
\* reader fails or a Write fails (that error is returned).
RECURSIVE CopyLoop(_, _, _, _)
CopyLoop(w, body, failsAt, n) ==
    IF body.chunks = <<>> THEN [w |-> w, body |-> body, err |-> body.fault]
    ELSE IF n = failsAt
    THEN [w |-> w, body |-> Reader(Tail(body.chunks), body.fault), err |-> ErrWrite]
    ELSE CopyLoop(Write(w, Head(body.chunks)), Reader(Tail(body.chunks), body.fault),
                  failsAt, n + 1)

\* io.Copy(w, body): src.WriteTo(w) when the reader has WriteTo, the loop of
\* Read and Write otherwise.
Copy(w, body, failsAt, n) ==
    IF body.kind = "strings.Reader" THEN WriteTo(w, body, failsAt, n)
    ELSE CopyLoop(w, body, failsAt, n)

\* The end of ResponseTo, the header copied and the status written to w1:
\* the body is copied if there is one.
StatusWritten(c, w1, failsAt) ==
    IF c.Body = Nil THEN [w |-> w1, body |-> Nil, err |-> Nil]
    ELSE Copy(w1, c.Body, failsAt, 1)

\* A plausible slip: the status is written before the header is copied.
ResponseCacheToStatusFirst(c, w0, headerOrder, failsAt) ==
    StatusWritten(c, CopyHeader(WriteHeader(w0, c.Code), c.HeaderCache, headerOrder), failsAt)

\* What rc.ResponseTo(w) does to the writer and to the Body and returns, the
\* keys of HeaderCache met in the order given.
ResponseCacheToResult(c, w0, headerOrder, failsAt) ==
    StatusWritten(c, WriteHeader(CopyHeader(w0, c.HeaderCache, headerOrder), c.Code), failsAt)

\* The writer as the call leaves it, the error returned, and the Body read.
CacheReturned(res) ==
    /\ cw' = res.w
    /\ cerr' = res.err
    /\ rc' = [rc EXCEPT !.Body = res.body]

\* rc.ResponseTo(w0): the whole call, no other call on rc running meanwhile.
ResponseCacheTo(w0, headerOrder, failsAt) ==
    /\ rc # Nil
    /\ CacheReturned(ResponseCacheToResult(rc, w0, headerOrder, failsAt))
    /\ cwBefore' = w0
    /\ copied' = [header |-> headerOrder, failsAt |-> failsAt, body |-> rc.Body]
    /\ UNCHANGED <<rcMade, inflight>>
    /\ UNCHANGED decVars
    /\ UNCHANGED muxVars
    /\ UNCHANGED redirectVars
    /\ UNCHANGED endpointVars

\* The response caches a handler builds.
CacheCodes == { 200, 500 }
CacheHeaders ==
    { EmptyMap,
      (<<"X", "-", "H", "e", "l", "l", "o", "-", "W", "o", "r", "l", "d">> :> << <<"s", "i", "l", "l", "y", " ", "h", "e", "l", "l", "o">> >>),
      (<<"v", "a", "r", "y">> :> << <<"a">>, <<"b">> >>) @@ (<<"x", "-", "y">> :> << <<"1">> >>) }
CacheBodies ==
    { Nil,
      StringsReader(<<>>, 0),
      StringsReader(<<"hello world">>, 0),
      Reader(<<>>, Nil),
      Reader(<< <<"he">>, <<"llo">> >>, Nil),
      Reader(<< <<"he">> >>, Error(<<"unexpected EOF">>)) }

Caches ==
    { [Code |-> c, HeaderCache |-> h, Body |-> b] :
        c \in CacheCodes, h \in CacheHeaders, b \in CacheBodies }

\* The Write of a call that fails: none, the first, the second.
FailingWrites == 0..2

InitCache ==
    /\ InitMux
    /\ IdleDecoder
    /\ IdleResponder
    /\ rc \in Caches
    /\ rcMade = rc
    /\ copied = NoCall
    /\ cwBefore = Nil
    /\ cw = Nil
    /\ cerr = Nil
    /\ inflight = NoCalls
    /\ IdleEndpoint

NextCache ==
    \E w0 \in Writers, headerOrder \in Orders(DOMAIN rc.HeaderCache),
       failsAt \in FailingWrites :
        ResponseCacheTo(w0, headerOrder, failsAt)

SpecCache == InitCache /\ [][NextCache]_vars

(***************************************************************************)
(* ResponseCache: properties                                               *)
(***************************************************************************)

\* A call of rc.ResponseTo has been made.
CacheResponded == copied # NoCall

\* What a call added to the log of the writer.
NewEvents(before, after) == SubSeq(after.events, Len(before.events) + 1, Len(after.events))

\* The values a writer holds for a header key.
Held(wr, key) == IF key \in DOMAIN wr.header THEN wr.header[key] ELSE <<>>

\* The values the events give to a header key, in order.
AddedTo(events, key) ==
    LET sel == SelectSeq(events, LAMBDA e : e.op = "Header.Add" /\ e.key = key)
    IN  [i \in 1..Len(sel) |-> sel[i].value]

\* The chunks the events wrote, in order.
WrittenChunks(events) ==
    LET sel == SelectSeq(events, LAMBDA e : e.op = "Write")
    IN  [i \in 1..Len(sel) |-> sel[i].value]

\* The header keys of a cache as the writer spells them.
CanonicalKeys(headerCache) == { CanonicalMIMEHeaderKey(k) : k \in DOMAIN headerCache }

\* The events are header additions, then one status with the code, then
\* body writes.
HeaderThenStatusThenBody(events, c) ==
    \E s \in DOMAIN events :
        /\ events[s] = [op |-> "WriteHeader", key |-> <<>>, value |-> <<>>, code |-> c]
        /\ \A i \in 1..(s - 1) : events[i].op = "Header.Add"
        /\ \A i \in (s + 1)..Len(events) : events[i].op = "Write"

\* Every value of every key of the cache has been added, in its order, after
\* what the writer held, and nothing else has changed in the header.
HeaderAppended(headerCache, before, after, events) ==
    /\ \A k \in DOMAIN headerCache :
          /\ AddedTo(events, CanonicalMIMEHeaderKey(k)) = headerCache[k]
          /\ Held(after, CanonicalMIMEHeaderKey(k))
                = Held(before, CanonicalMIMEHeaderKey(k)) \o headerCache[k]
    /\ \A key \in (DOMAIN after.header \cup DOMAIN before.header)
                  \ CanonicalKeys(headerCache) :
          Held(after, key) = Held(before, key)

\* What a reader gives until its end, Write by Write, and the error it ends
\* with.
Yields(body) ==
    IF body.kind = "io.Reader" THEN body.chunks
    ELSE IF body.i >= Len(body.s) THEN <<>>
    ELSE << SubSeq(body.s, body.i + 1, Len(body.s)) >>
Fault(body) == IF body.kind = "io.Reader" THEN body.fault ELSE Nil

\* The copy of the body failed: a Write did, or the reader did.
CopyFailed(body, failsAt) == failsAt \in 1..Len(Yields(body)) \/ Fault(body) # Nil

\* No body and nothing written, or the whole body written and nil returned,
\* or the copy failed and its error returned.
BodyCopied(body, failsAt, events, e) ==
    IF body = Nil THEN WrittenChunks(events) = <<>> /\ e = Nil
    ELSE IF CopyFailed(body, failsAt) THEN e # Nil
    ELSE WrittenChunks(events) = Yields(body) /\ e = Nil

\* C11: ResponseCache.ResponseTo adds every value of every HeaderCache key to
\* the header of the writer (after the values the writer holds for the key,
\* in the stored order), then writes the status Code exactly once, then
\* copies the whole body if Body is not nil; no header is added after the
\* status, and the error returned is nil unless the copy of the body fails.
C11_HeaderThenStatusThenBody ==
    CacheResponded =>
        /\ HeaderThenStatusThenBody(NewEvents(cwBefore, cw), rc.Code)
        /\ HeaderAppended(rc.HeaderCache, cwBefore, cw, NewEvents(cwBefore, cw))
        /\ BodyCopied(copied.body, copied.failsAt, NewEvents(cwBefore, cw), cerr)

\* A cache with two Vary values and a body of two chunks has been written to
\* a writer that held a Vary value.
C11_Witness ==
    /\ CacheResponded
    /\ cerr = Nil
    /\ Held(cwBefore, <<"V", "a", "r", "y">>) = << <<"A", "c", "c", "e", "p", "t">> >>
    /\ Held(cw, <<"V", "a", "r", "y">>) = << <<"A", "c", "c", "e", "p", "t">>, <<"a">>, <<"b">> >>
    /\ WrittenChunks(NewEvents(cwBefore, cw)) = << <<"he">>, <<"llo">> >>
    /\ Len(NewEvents(cwBefore, cw)) = 6
    /\ NewEvents(cwBefore, cw)[4].code = 500

(***************************************************************************)
(* The authorization endpoint                                              *)
(***************************************************************************)

\* The Context the endpoint was built with (actx of NewAuthorizeEndpoint).
EndpointContext == "actx"

\* WithContext(parent, &actx): the context of the request with the Context
\* of the endpoint attached to it.
WithContext(parent, actx) == parent \o "+" \o actx

\* r.WithContext(ctx): the request with that context.
RequestWithContext(r, ctx) == [ctx |-> ctx, query |-> r.query]

\* encoder.EncodeResponse(w, rspr): the call the encoder gets.
EncodeResponse(w0, rspr) == [callee |-> "encoder", w |-> w0, rspr |-> rspr]

\* decoder.DecodeAuthorize(r1): the call the decoder gets, and what it
\* returned.
DecoderCall(r1, res) ==
    [callee |-> "decoder", r |-> r1, ctx |-> res.ctx, ar |-> res.ar, err |-> res.err]

\* handler.HandleAuthorizeRequest(ctx, ar, decodeErr): the call the handler
\* gets, and how it ended.
HandlerCall(res, d) ==
    [callee |-> "handler", ctx |-> res.ctx, ar |-> res.ar, decodeErr |-> res.err,
     rspr |-> d.rd, panicked |-> d.panicked]

\* The calls the function of the endpoint makes: a panic of the handler
\* unwinds it before the encoder is reached.
EndpointCalls(w0, r1, res, d) ==
    IF d.panicked = ""
    THEN <<DecoderCall(r1, res), HandlerCall(res, d), EncodeResponse(w0, d.rd)>>
    ELSE <<DecoderCall(r1, res), HandlerCall(res, d)>>

\* The handler of the endpoint is the mux: what the call of it leaves.
Dispatched(w0, r1, res, d) ==
    /\ req' = r1
    /\ dctx' = res.ctx
    /\ ar' = res.ar
    /\ err' = res.err
    /\ muxCall' = [ctx |-> res.ctx, ar |-> res.ar, decodeErr |-> res.err,
                   registered |-> Len(registrations)]
    /\ invoked' = d.invoked
    /\ rd' = d.rd
    /\ panicked' = d.panicked
    /\ calls' = EndpointCalls(w0, r1, res, d)

\* The decoder of the endpoint has returned res for the request r1.
Decoded(w0, r1, res) ==
    Dispatched(w0, r1, res, Dispatch(handlers, res.ctx, res.ar, res.err))

\* The decoder of the endpoint is the default decoder.
Handled(w0, r1) == Decoded(w0, r1, DecodeAuthorizeResult(allowedResponseTypes, r1))

\* The http.Handler NewAuthorizeEndpoint(actx, decoder, mux, encoder)
\* returns, called with (w0, r).
ServeHTTP(w0, r) ==
    /\ Handled(w0, RequestWithContext(r, WithContext(r.ctx, EndpointContext)))
    /\ served' = [w |-> w0, r |-> r]
    /\ UNCHANGED <<decoderArgs, allowedResponseTypes, handlers, registrations>>
    /\ UNCHANGED redirectVars
    /\ UNCHANGED cacheVars

\* The requests the endpoint gets: no response_type, an allowed one, one not
\* allowed.
EndpointRequests ==
    { r \in Requests :
        r.query["response_type"] \in {<<>>, <<code>>, <<token \o <<"\r">> >>} }

\* The handlers the integrator registers, by Add and by AddFunc.
EndpointHandlers == {Nil, HandlerObject("h1")}
EndpointFuncs == {"f1"}

\* The endpoint of a decoder that allows "code" and of an empty mux.
InitEndpoint ==
    /\ InitMux
    /\ decoderArgs = <<code>>
    /\ allowedResponseTypes = NewAuthorizeDecoder(decoderArgs)
    /\ req = NoCall
    /\ dctx = NilContext
    /\ ar = Nil
    /\ err = Nil
    /\ IdleResponder
    /\ IdleCache
    /\ IdleEndpoint

NextEndpoint ==
    \/ \E st \in RegisteredStages, h \in EndpointHandlers : Add(st, h)
    \/ \E st \in RegisteredStages, f \in EndpointFuncs : AddFunc(st, f)
    \/ \E r \in EndpointRequests : ServeHTTP(FreshWriter, r)

SpecEndpoint == InitEndpoint /\ [][NextEndpoint]_vars

(***************************************************************************)
(* Properties of the endpoint                                              *)
(***************************************************************************)

\* A call of the endpoint has been made.
Served == served # NoCall

\* The calls are one of the decoder, then one of the handler with what the
\* decoder returned, then one of the encoder with the writer of the endpoint
\* and what the handler returned.
OnceEachInOrder(cs, w0) ==
    /\ Len(cs) = 3
    /\ cs[1].callee = "decoder"
    /\ cs[2].callee = "handler"
    /\ cs[2].ctx = cs[1].ctx
    /\ cs[2].ar = cs[1].ar
    /\ cs[2].decodeErr = cs[1].err
    /\ cs[3] = [callee |-> "encoder", w |-> w0, rspr |-> cs[2].rspr]

\* C12: a call of the endpoint calls the decoder exactly once, then the
\* handler exactly once with the context, the request and the error the
\* decoder returned (also when the error is not nil), then the encoder
\* exactly once with the Responder the handler returned.
C12_DecoderHandlerEncoderOnceEach == Served => OnceEachInOrder(calls, served.w)

(***************************************************************************)
(* RedirectResponse: the contract of a Responder                           *)
(***************************************************************************)

\* The method set of an error value: a value of fmt.Errorf or errors.New has
\* Error() only; one with a code and a message has Code() and Message() too.
MethodsOf(e) ==
    {"Error"} \cup (IF "code" \in DOMAIN e THEN {"Code"} ELSE {})
              \cup (IF "message" \in DOMAIN e THEN {"Message"} ELSE {})

\* The error can be assigned to a ResponderError.
ImplementsResponderError(e) == {"Code", "Message", "Error"} \subseteq MethodsOf(e)

\* C13: whenever RedirectResponse.ResponseTo returns an error, the header,
\* the status and the body of the writer are as they were before the call,
\* and the error implements ResponderError.
C13_ErrorLeavesWriterAndIsResponderError ==
    (Responded /\ rerr # Nil) =>
        /\ rw = rwBefore
        /\ ImplementsResponderError(rerr)

\* The fragment of a URI as it is written: what follows its first '#'.
WrittenFragment(uri) ==
    IF Index(uri, "#") = 0 THEN <<>> ELSE SubSeq(uri, Index(uri, "#") + 1, Len(uri))

\* C14: when RedirectResponse.ResponseTo succeeds, the fragment of the
\* Location URI is the URL-encoded form of the Fragment map of the responder
\* and nothing else; for an empty Fragment map the Location has no fragment,
\* also when the redirect URI had one.
C14_FragmentIsEncodedFragmentMap ==
    (Responded /\ rerr = Nil) =>
        /\ WrittenFragment(LocationOf(rw)) = Encode(rr.Fragment)
        /\ rr.Fragment = EmptyMap => Index(LocationOf(rw), "#") = 0

(***************************************************************************)
(* ResponseCache: calls that interleave                                    *)
(*                                                                         *)
(* Each caller has a writer of its own; rc is shared.  The header copy and *)
(* the status touch the writer only and read fields of rc no call writes,  *)
(* so they are one step.  Every access to the Body is a step of its own;   *)
(* a Write is taken together with the access that follows it.              *)
(***************************************************************************)

\* The panic of r.s[r.i:] with r.i beyond the end of the string.
SliceOutOfRange == [panicked |-> "slice bounds out of range"]

\* A call that has copied the header and written the status, w1 the writer
\* then: where it goes on depends on the Body.
Flight(w0, w1, headerOrder, failsAt, body) ==
    [before |-> w0, w |-> w1, header |-> headerOrder, failsAt |-> failsAt,
     body |-> body, n |-> 1, held |-> <<>>, i |-> 0, m |-> 0, err |-> Nil,
     pc |-> IF body = Nil THEN "return"
            ELSE IF body.kind = "strings.Reader" THEN "check" ELSE "Read"]

\* What a step leaves alone beside rc and inflight.
CallGoesOn ==
    /\ UNCHANGED <<rcMade, copied, cwBefore, cw, cerr>>
    /\ UNCHANGED decVars
    /\ UNCHANGED muxVars
    /\ UNCHANGED redirectVars
    /\ UNCHANGED endpointVars

\* rc.ResponseTo(w0) by caller c, up to the test of rc.Body.
ResponseToBegin(c, w0, headerOrder, failsAt) ==
    /\ rc # Nil
    /\ inflight[c] = NoCall
    /\ inflight' = [inflight EXCEPT ![c] =
           Flight(w0, WriteHeader(CopyHeader(w0, rc.HeaderCache, headerOrder), rc.Code),
                  headerOrder, failsAt, rc.Body)]
    /\ UNCHANGED rc
    /\ CallGoesOn

\* The caller is in a call, at pc.
At(c, pc) == inflight[c] # NoCall /\ inflight[c].pc = pc

\* strings.Reader.WriteTo: if r.i >= len(r.s) { return 0, nil }
WriteToCheck(c) ==
    /\ At(c, "check")
    /\ inflight' = [inflight EXCEPT ![c].pc =
           IF rc.Body.i >= Len(rc.Body.s) THEN "return" ELSE "slice"]
    /\ UNCHANGED rc
    /\ CallGoesOn

\* strings.Reader.WriteTo: s := r.s[r.i:]
WriteToSlice(c) ==
    /\ At(c, "slice")
    /\ inflight' = [inflight EXCEPT ![c] =
           IF rc.Body.i > Len(rc.Body.s)
           THEN [@ EXCEPT !.err = SliceOutOfRange, !.pc = "return"]
           ELSE [@ EXCEPT !.held = SubSeq(rc.Body.s, rc.Body.i + 1, Len(rc.Body.s)),
                          !.pc = "WriteString"]]
    /\ UNCHANGED rc
    /\ CallGoesOn

\* strings.Reader.WriteTo: m, err := io.WriteString(w, s), and r.i is read
\* for r.i += int64(m).
WriteToWriteString(c) ==
    /\ At(c, "WriteString")
    /\ inflight' = [inflight EXCEPT ![c] =
           IF @.failsAt = @.n
           THEN [@ EXCEPT !.m = 0, !.err = ErrWrite, !.i = rc.Body.i, !.pc = "store"]
           ELSE [@ EXCEPT !.w = Write(@, inflight[c].held), !.m = Len(inflight[c].held),
                          !.i = rc.Body.i, !.pc = "store"]]
    /\ UNCHANGED rc
    /\ CallGoesOn

\* strings.Reader.WriteTo: r.i += int64(m), the sum stored.
WriteToStore(c) ==
    /\ At(c, "store")
    /\ rc' = [rc EXCEPT !.Body.i = inflight[c].i + inflight[c].m]
    /\ inflight' = [inflight EXCEPT ![c].pc = "return"]
    /\ CallGoesOn

\* The loop of io.Copy: nr, er := src.Read(buf)
CopyRead(c) ==
    /\ At(c, "Read")
    /\ IF rc.Body.chunks = <<>>
       THEN /\ inflight' = [inflight EXCEPT ![c].err = rc.Body.fault, ![c].pc = "return"]
            /\ UNCHANGED rc
       ELSE /\ inflight' = [inflight EXCEPT ![c].held = Head(rc.Body.chunks),
                                             ![c].pc = "Write"]
            /\ rc' = [rc EXCEPT !.Body.chunks = Tail(@)]
    /\ CallGoesOn

\* The loop of io.Copy: nw, ew := dst.Write(buf[0:nr])
CopyWrite(c) ==
    /\ At(c, "Write")
    /\ inflight' = [inflight EXCEPT ![c] =
           IF @.failsAt = @.n
           THEN [@ EXCEPT !.err = ErrWrite, !.pc = "return"]
           ELSE [@ EXCEPT !.w = Write(@, inflight[c].held), !.n = @ + 1, !.pc = "Read"]]
    /\ UNCHANGED rc
    /\ CallGoesOn

\* The call of caller c returns.
ResponseToReturn(c) ==
    /\ At(c, "return")
    /\ cwBefore' = inflight[c].before
    /\ cw' = inflight[c].w
    /\ cerr' = inflight[c].err
    /\ copied' = [header |-> inflight[c].header, failsAt |-> inflight[c].failsAt,
                  body |-> inflight[c].body]
    /\ inflight' = [inflight EXCEPT ![c] = NoCall]
    /\ UNCHANGED <<rc, rcMade>>
    /\ UNCHANGED decVars
    /\ UNCHANGED muxVars
    /\ UNCHANGED redirectVars
    /\ UNCHANGED endpointVars

\* The response caches two callers share: the one of TestResponseCache, with
\* every body.
SharedCaches ==
    { c \in Caches : c.Code = 500 /\ DOMAIN c.HeaderCache = {<<"X", "-", "H", "e", "l", "l", "o", "-", "W", "o", "r", "l", "d">>} }

\* The Write of such a call that fails: none, the first.
SharedFailingWrites == 0..1

InitShared ==
    /\ InitMux
    /\ IdleDecoder
    /\ IdleResponder
    /\ rc \in SharedCaches
    /\ rcMade = rc
    /\ copied = NoCall
    /\ cwBefore = Nil
    /\ cw = Nil
    /\ cerr = Nil
    /\ inflight = NoCalls
    /\ IdleEndpoint

NextShared ==
    \E c \in Callers :
        \/ \E headerOrder \in Orders(DOMAIN rc.HeaderCache), failsAt \in SharedFailingWrites :
              ResponseToBegin(c, FreshWriter, headerOrder, failsAt)
        \/ WriteToCheck(c)
        \/ WriteToSlice(c)
        \/ WriteToWriteString(c)
        \/ WriteToStore(c)
        \/ CopyRead(c)
        \/ CopyWrite(c)
        \/ ResponseToReturn(c)

SpecShared == InitShared /\ [][NextShared]_vars

(***************************************************************************)
(* ResponseCache: calls on one object                                      *)
(***************************************************************************)

\* The writer and the error of the last call are those of res.
SameOutcome(res) ==
    /\ cw = res.w
    /\ cerr = res.err

\* C15: ResponseTo never changes the state of a ResponseCache, so every call
\* on one object, the first and each later one, leaves the object as it was
\* built and gives the writer and the caller what a single call on the
\* object as built gives them: the same status, header and body, the same
\* error.
C15_EveryCallAsASingleCall ==
    CacheResponded =>
        /\ rc = rcMade
        /\ SameOutcome(ResponseCacheToResult(rcMade, cwBefore, copied.header, copied.failsAt))

(***************************************************************************)
(* The endpoint of the default decoder and the mux                         *)
(***************************************************************************)

\* Every invocation the mux made is one of the value registered last for
\* StageInitialize among the first n registrations; without such a
\* registration no handler is invoked and the mux returns its 500 response.
OnlyInitializeInvoked(n) ==
    IF HasRegistration(StageInitialize, n)
    THEN \A i \in DOMAIN invoked :
            /\ invoked[i].handler = LastRegistered(StageInitialize, n)
            /\ invoked[i].ar.Stage = StageInitialize
    ELSE /\ invoked = <<>>
         /\ rd # Nil
         /\ rd.Code = 500
         /\ rd.addr = "mux"

\* C16: every AuthorizeRequest DecodeAuthorize returns has the stage
\* StageInitialize (0) and an empty UserID, whatever the query holds; so the
\* endpoint of the default decoder and a mux invokes only the handler
\* registered for StageInitialize (or returns the 500 response of the mux
\* when there is none), and never a handler registered for another stage.
C16_OnlyStageInitializeHandled ==
    Served =>
        /\ ar.Stage = StageInitialize
        /\ ar.UserID = <<>>
        /\ calls[1].ar = ar
        /\ muxCall.ar = ar
        /\ OnlyInitializeInvoked(muxCall.registered)

\* Handlers are registered for StageInitialize and for StageToAuthorize, and
\* a request with an allowed response_type and a client_id has been served:
\* the handler of StageInitialize ran, once.
C16_Witness ==
    /\ Served
    /\ err = Nil
    /\ ar.ClientID # <<>>
    /\ StageToAuthorize \in DOMAIN handlers
    /\ handlers[StageToAuthorize] = HandlerFunc("f1")
    /\ StageInitialize \in DOMAIN handlers
    /\ handlers[StageInitialize] = HandlerObject("h1")
    /\ Len(invoked) = 1
    /\ invoked[1].handler = HandlerObject("h1")
    /\ Len(calls) = 3

====
